---- MODULE Spec2Model ----
(***************************************************************************)
(* Model of the research orchestration engine (LangGraphSearchEngine):     *)
(* the graph state with its per-field reducers, the eight graph nodes, the *)
(* conditional edges, and the search() entry point that invokes the graph  *)
(* under a recursion limit and turns every failure into an error event.    *)
(*                                                                         *)
(* Units: confidence and quality are kept in tenths (0.2 is 2, 1.0 is 10). *)
(* A text (content, summary) is a record [len, words]: its length in       *)
(* characters and the set of tokens that occur in it as substrings.        *)
(* An optional value is None (undefined) or Some(v).                       *)
(***************************************************************************)
EXTENDS Integers, Sequences, FiniteSets, TLC

VARIABLES
    state,        \* the SearchState record threaded through the graph
    node,         \* the node the graph runs next ("END" when it has finished)
    steps,        \* graph steps (node executions) taken by this invoke
    runStatus,    \* the promise of search(): "running", "resolved", "rejected"
    stream,       \* what the caller's onEvent has received (tail and counters)
    speedMode,    \* SEARCH_CONFIG.SPEED_MODE, fixed for the run
    web,          \* the URLs the fetcher can return in this run
    understandRuns, \* executions of the understand node in this run
    rounds,         \* search rounds started and returns from analyze to plan in this run
    contributed,  \* per URL: did any record merged into sources carry content / a summary
    failed,       \* the kinds of call that have failed in this run: "model", "search"
    probe         \* a call of one of the pure functions: its arguments and results

vars == <<state, node, steps, runStatus, stream, speedMode, web, understandRuns, rounds,
          contributed,
          failed, probe>>

----------------------------------------------------------------------------
(* Bounds of the model *)

MaxSubQueries == 1     \* sub-questions of a plan whose answers are checked one by one
LongPlan == 30         \* one long plan, enough searches to use up the graph steps
MaxResults == 2        \* results the fetcher returns for one query
MaxChunks == 1         \* chunks of a streamed answer
EventTail == 2         \* events of the stream kept (the most recent ones)
MaxQueryWords == 6     \* tokens of a query given to scoreContent on its own
MaxProbeSources == 2   \* sources given to processSources on its own
MaxMergedSources == 16 \* sources of the longest list given to the analyze node on its own
MaxParQueries == 2     \* queries of the round whose summaries are followed one by one
MaxPageChars == 60000  \* characters of the longest page a source carries as content
MaxBudgetSources == 2  \* sources given to distributeCharacterBudget on its own

(* Program constants *)

MAX_SEARCH_QUERIES == 3
MAX_SOURCES_PER_SEARCH == 8
MAX_SOURCES_TO_SCRAPE == 10
MIN_CONTENT_LENGTH == 100
MAX_SOURCES_TO_CHECK == 15
MAX_RETRIES == 1
MAX_SEARCH_ATTEMPTS == 2
MIN_ANSWER_CONFIDENCE == 2
PARTIAL_CONFIDENCE == 3
RECURSION_LIMIT == 35
MAX_TOTAL_CHARS == 100000
MIN_CHARS_PER_SOURCE == 2000
MAX_CHARS_PER_SOURCE == 15000

----------------------------------------------------------------------------
(* Values *)

None == <<>>
Some(v) == <<v>>

Min(a, b) == IF a < b THEN a ELSE b
Max(a, b) == IF a > b THEN a ELSE b

OptionalFields ==
    {"understanding", "searchQueries", "processedSources", "finalAnswer",
     "followUpQuestions", "subQueries", "error", "errorType"}

EmptyText == [len |-> 0, words |-> {}]
LongText == [len |-> 150, words |-> {"a", "b"}]
PageText == [len |-> 200, words |-> {"b"}]
SummaryText == [len |-> 40, words |-> {"a"}]

\* a page as long as pages get
BigPage == [len |-> MaxPageChars, words |-> {"b"}]

\* what the fetcher can return as the content of a search result
ResultTexts == {EmptyText, LongText}

\* the user's query, split on ' '
Queries == {<<"a", "b">>}

Urls == {"https://a.example", "not a url"}

\* the fetcher's web: every URL under direct planning, one URL under
\* decomposed planning, where a run has up to three rounds of searches
Webs(speed) == IF speed THEN {Urls} ELSE {{"https://a.example"}}

\* new URL(u) throws for a string that is not an absolute URL
ValidUrl(u) == u = "https://a.example"

\* confidences an answer check can report (tenths)
ConfLevels == {1, 2, 3}

\* encodings of search phrases: 0 is the user's query, i > 0 the phrase of
\* sub-question i; the derived phrases below are kept apart from both
UserQuery == 0
AltQuery(attempt, k) == 100 * attempt + k
NewsQuery(q) == 10000 + q
BaseTerm(question) == 50000 + question

\* /\b\d{3,4}\b|\bv\d+\.\d+|\bversion\s+\d+/i : the even-numbered
\* sub-questions are the ones that carry a version-like token
HasVersionPattern(question) == question > 0 /\ question % 2 = 0

----------------------------------------------------------------------------
(* Sequences *)

RECURSIVE SeqMap(_, _)
SeqMap(F(_), s) == IF s = <<>> THEN <<>> ELSE <<F(Head(s))>> \o SeqMap(F, Tail(s))

Slice(s, n) == SubSeq(s, 1, Min(n, Len(s)))

LastN(s, n) == IF Len(s) <= n THEN s ELSE SubSeq(s, Len(s) - n + 1, Len(s))

Range(s) == {s[i] : i \in DOMAIN s}

\* Array.prototype.sort with comparator Before (stable insertion)
RECURSIVE InsertSorted(_, _, _)
InsertSorted(Before(_, _), x, s) ==
    IF s = <<>> THEN <<x>>
    ELSE IF Before(x, Head(s)) THEN <<x>> \o s
    ELSE <<Head(s)>> \o InsertSorted(Before, x, Tail(s))

RECURSIVE StableSort(_, _)
StableSort(Before(_, _), s) ==
    IF s = <<>> THEN <<>>
    ELSE InsertSorted(Before, s[Len(s)], StableSort(Before, SubSeq(s, 1, Len(s) - 1)))

----------------------------------------------------------------------------
(* Texts and sources *)

Truthy(text) == text.len > 0

\* String.prototype.includes: the empty token occurs in every text
Includes(text, word) == word = "" \/ word \in text.words

RECURSIVE CountIncluded(_, _)
CountIncluded(text, ws) ==
    IF ws = <<>> THEN 0
    ELSE (IF Includes(text, Head(ws)) THEN 1 ELSE 0) + CountIncluded(text, Tail(ws))

\* variant of scoreContent without Math.min(score, 1)
scoreContent_Uncapped(content, query) == 2 * CountIncluded(content, query)

scoreContent(content, query) == Min(2 * CountIncluded(content, query), 10)

Source(u, c, q, s) == [url |-> u, content |-> c, quality |-> q, summary |-> s]

HasUrl(m, u) == \E i \in DOMAIN m : m[i].url = u

\* Map.set: a known key keeps its position and takes the new value
MapSet(m, s) ==
    IF HasUrl(m, s.url)
    THEN [i \in DOMAIN m |-> IF m[i].url = s.url THEN s ELSE m[i]]
    ELSE Append(m, s)

RECURSIVE MapSetAll(_, _)
MapSetAll(m, ss) == IF ss = <<>> THEN m ELSE MapSetAll(MapSet(m, Head(ss)), Tail(ss))

\* variant of the sources reducer that appends without the Map keyed by URL
SourcesReducer_Concat(existing, update) == existing \o update

SourcesReducer(existing, update) == MapSetAll(<<>>, existing \o update)

\* variant of the scrapedSources reducer that keeps the update alone
ScrapedSourcesReducer_Replace(existing, update) == update

ScrapedSourcesReducer(existing, update) == existing \o update

LastValueReducer(x, y) == IF y = None THEN x ELSE y

Reducer(k, x, y) ==
    IF k = "sources" THEN (IF y = None THEN x ELSE SourcesReducer(x, y[1]))
    ELSE IF k = "scrapedSources" THEN (IF y = None THEN x ELSE ScrapedSourcesReducer(x, y[1]))
    ELSE IF k \in OptionalFields THEN LastValueReducer(x, y)
    ELSE (IF y = None THEN x ELSE y[1])

\* the graph applies a node's partial update field by field
ApplyUpdate(st, upd) ==
    [k \in DOMAIN st |-> IF k \in DOMAIN upd THEN Reducer(k, st[k], upd[k]) ELSE st[k]]

----------------------------------------------------------------------------
(* Events *)

PhaseUpdate(p) == [type |-> "phase-update", phase |-> p]
Thinking == [type |-> "thinking"]
Searching(i) == [type |-> "searching", index |-> i]
Found == [type |-> "found"]
Scraping == [type |-> "scraping"]
SourceProcessing == [type |-> "source-processing"]
SourceComplete == [type |-> "source-complete"]
ContentChunk(c) == [type |-> "content-chunk", chunk |-> c]
FinalResult(c, ss, f) ==
    [type |-> "final-result", content |-> c, sources |-> ss, followUpQuestions |-> f]
ErrorEvent(t) == [type |-> "error", errorType |-> t]

Emit(s, e) ==
    [tail |-> LastN(Append(s.tail, e), EventTail),
     count |-> Min(s.count + 1, EventTail + 1),
     errors |-> s.errors + (IF e.type = "error" THEN 1 ELSE 0),
     finals |-> s.finals + (IF e.type = "final-result" THEN 1 ELSE 0),
     afterError |-> s.afterError \/ s.errors > 0]

RECURSIVE EmitAll(_, _)
EmitAll(s, es) == IF es = <<>> THEN s ELSE EmitAll(Emit(s, Head(es)), Tail(es))

LastEvent == stream.tail[Len(stream.tail)]

----------------------------------------------------------------------------
(* The run: search() builds initialState and invokes the graph *)

InitialState(q) ==
    [query |-> q,
     sources |-> <<>>,
     scrapedSources |-> <<>>,
     processedSources |-> None,
     phase |-> "understanding",
     currentSearchIndex |-> 0,
     maxRetries |-> MAX_RETRIES,
     retryCount |-> 0,
     understanding |-> None,
     searchQueries |-> None,
     finalAnswer |-> None,
     followUpQuestions |-> None,
     error |-> None,
     errorType |-> None,
     subQueries |-> None,
     searchAttempt |-> 0]

Init ==
    /\ state \in {InitialState(q) : q \in Queries}
    /\ node = "understand"
    /\ steps = 0
    /\ runStatus = "running"
    /\ stream = [tail |-> <<>>, count |-> 0, errors |-> 0, finals |-> 0, afterError |-> FALSE]
    /\ speedMode \in BOOLEAN
    /\ web \in Webs(speedMode)
    /\ understandRuns = 0
    /\ rounds = [started |-> 0, replans |-> 0]
    /\ contributed = [content |-> {}, summary |-> {}]
    /\ failed = {}
    /\ probe = [fn |-> "none"]

\* the conditional edges of buildGraph
Route(from, st) ==
    IF from = "understand" THEN (IF st.phase = "error" THEN "handleError" ELSE "plan")
    ELSE IF from = "plan" THEN (IF st.phase = "error" THEN "handleError" ELSE "search")
    ELSE IF from = "search" THEN
        (IF st.phase = "error" THEN "handleError"
         ELSE IF st.currentSearchIndex <
                 (IF st.searchQueries = None THEN 0 ELSE Len(st.searchQueries[1]))
              THEN "search"
         ELSE "scrape")
    ELSE IF from = "scrape" THEN (IF st.phase = "error" THEN "handleError" ELSE "analyze")
    ELSE IF from = "analyze" THEN
        (IF st.phase = "error" THEN "handleError"
         ELSE IF st.phase = "planning" THEN "plan"
         ELSE "synthesize")
    ELSE IF from = "synthesize" THEN (IF st.phase = "error" THEN "handleError" ELSE "complete")
    ELSE IF from = "handleError" THEN (IF st.phase = "error" THEN "END" ELSE "understand")
    ELSE "END"

\* variant of the step guard without the recursion limit
CanRun_NoCeiling(name) == runStatus = "running" /\ node = name

\* the graph may run one more node while the recursion limit is not used up
CanRun(name) == runStatus = "running" /\ node = name /\ steps < RECURSION_LIMIT

\* records whose content / summary took part in a merge by URL
Contribute(c, records) ==
    [content |-> c.content \cup {r.url : r \in {x \in Range(records) : Truthy(x.content)}},
     summary |-> c.summary \cup {r.url : r \in {x \in Range(records) : Truthy(x.summary)}}]

\* one graph step: the node's events reach the caller, its update goes
\* through the reducers, the conditional edge picks the next node
Step(name, upd, events, merged, failures) ==
    /\ state' = ApplyUpdate(state, upd)
    /\ failed' = failed \cup failures
    /\ node' = Route(name, state')
    /\ steps' = steps + 1
    /\ stream' = EmitAll(stream, events)
    /\ contributed' = Contribute(contributed, merged)
    /\ understandRuns' = understandRuns + (IF name = "understand" THEN 1 ELSE 0)
    /\ rounds' = [started |-> rounds.started
                     + (IF name = "plan" /\ node' = "search" THEN 1 ELSE 0),
                  replans |-> rounds.replans
                     + (IF name = "analyze" /\ node' = "plan" THEN 1 ELSE 0)]
    /\ UNCHANGED <<runStatus, speedMode, web, probe>>

\* variant of search() without its catch block: the failure of graph.invoke
\* rejects the promise
SearchCatch_Rethrows(events) ==
    /\ stream' = EmitAll(stream, events)
    /\ runStatus' = "rejected"
    /\ UNCHANGED <<state, node, steps, speedMode, web, understandRuns, rounds, contributed, failed, probe>>

\* catch block of search(): the failure is delivered as an error event
SearchCatch(events) ==
    /\ stream' = EmitAll(stream, events \o <<ErrorEvent(Some("unknown"))>>)
    /\ runStatus' = "resolved"
    /\ UNCHANGED <<state, node, steps, speedMode, web, understandRuns, rounds, contributed, failed, probe>>

----------------------------------------------------------------------------
(* understand node *)

Understand ==
    /\ CanRun("understand")
    /\ \E llmOk \in BOOLEAN :
        IF llmOk
        THEN Step("understand",
                  [understanding |-> Some("understanding"), phase |-> Some("planning")],
                  <<PhaseUpdate("understanding"), Thinking>>, <<>>, {})
        ELSE Step("understand",
                  [error |-> Some("Failed to understand query"),
                   errorType |-> Some("llm"), phase |-> Some("error")],
                  <<PhaseUpdate("understanding")>>, <<>>, {"model"})

----------------------------------------------------------------------------
(* plan node *)

NewSubQuery(e) ==
    [question |-> e.question, searchQuery |-> e.searchQuery, answered |-> FALSE,
     confidence |-> 0, answer |-> None, sources |-> {}]

\* what JSON.parse of the extraction response yields: an array of n
\* {question, searchQuery} objects, a value that is not an array, or a throw
ExtractResponses ==
    {[kind |-> "array", n |-> n] : n \in (0..MaxSubQueries) \cup {LongPlan}}
        \cup {[kind |-> "notArray", n |-> 0], [kind |-> "throws", n |-> 0]}

extractSubQueries(response) ==
    IF response.kind = "throws"
    THEN <<[question |-> UserQuery, searchQuery |-> UserQuery]>>
    ELSE [i \in 1..response.n |-> [question |-> i, searchQuery |-> i]]

Unanswered(sq) == ~sq.answered \/ sq.confidence < MIN_ANSWER_CONFIDENCE

\* the lines the model returns for alternative phrasings, or a failed call
AltResponses ==
    {[ok |-> TRUE, lines |-> k] : k \in {0, 1, MAX_SEARCH_QUERIES + 1}}
        \cup {[ok |-> FALSE, lines |-> 0]}

generateAlternativeSearchQueries(subQueries, previousAttempts, response) ==
    LET unansweredQueries == SelectSeq(subQueries, Unanswered)
        IsProblematic(sq) == HasVersionPattern(sq.question) /\ previousAttempts >= 2
        problematicQueries == SelectSeq(unansweredQueries, IsProblematic)
        Base(sq) == BaseTerm(sq.question)
        News(sq) == NewsQuery(sq.searchQuery)
    IN  IF previousAttempts >= 2 /\ problematicQueries # <<>>
        THEN SeqMap(Base, problematicQueries)
        ELSE IF response.ok
        THEN Slice([k \in 1..response.lines |-> AltQuery(previousAttempts, k)],
                   MAX_SEARCH_QUERIES)
        ELSE Slice(SeqMap(News, unansweredQueries), MAX_SEARCH_QUERIES)

\* subQueries.forEach: each unanswered sub-query takes the next alternative
RECURSIVE AssignAlternatives(_, _)
AssignAlternatives(sqs, alts) ==
    IF sqs = <<>> THEN <<>>
    ELSE IF Unanswered(Head(sqs)) /\ alts # <<>>
    THEN <<[Head(sqs) EXCEPT !.searchQuery = Head(alts)]>>
             \o AssignAlternatives(Tail(sqs), Tail(alts))
    ELSE <<Head(sqs)>> \o AssignAlternatives(Tail(sqs), alts)

PlanError ==
    [upd |-> [error |-> Some("Failed to plan search"), errorType |-> Some("llm"),
              phase |-> Some("error")],
     events |-> <<PhaseUpdate("planning")>>]

PlanSpeed(st) ==
    [upd |-> [searchQueries |-> Some(<<UserQuery>>), currentSearchIndex |-> Some(0),
              phase |-> Some("searching")],
     events |-> <<PhaseUpdate("planning"), Thinking>>]

PlanNormal(st, extraction, alternatives) ==
    IF st.subQueries = None /\ extraction.kind = "notArray"
    THEN PlanError
    ELSE
        LET subQueries ==
                IF st.subQueries # None THEN st.subQueries[1]
                ELSE SeqMap(NewSubQuery, extractSubQueries(extraction))
            unansweredQueries == SelectSeq(subQueries, Unanswered)
            alts == generateAlternativeSearchQueries(subQueries, st.searchAttempt, alternatives)
            SearchQueryOf(sq) == sq.searchQuery
        IN  IF unansweredQueries = <<>>
            THEN [upd |-> [subQueries |-> Some(subQueries), phase |-> Some("analyzing")],
                  events |-> <<PhaseUpdate("planning")>>]
            ELSE IF st.searchAttempt > 0
            THEN [upd |-> [searchQueries |-> Some(alts),
                           subQueries |-> Some(AssignAlternatives(subQueries, alts)),
                           currentSearchIndex |-> Some(0),
                           phase |-> Some("searching")],
                  events |-> <<PhaseUpdate("planning"), Thinking>>]
            ELSE [upd |-> [searchQueries |-> Some(SeqMap(SearchQueryOf, unansweredQueries)),
                           subQueries |-> Some(subQueries),
                           currentSearchIndex |-> Some(0),
                           phase |-> Some("searching")],
                  events |-> <<PhaseUpdate("planning"), Thinking>>]

\* the model calls of the plan node that did not return a usable response:
\* the extraction (asked for when there are no sub-queries yet) and the
\* alternative phrasings (asked for on a later attempt)
PlanFailures(st, extraction, alternatives) ==
    IF st.subQueries = None
    THEN (IF extraction.kind = "array" THEN {} ELSE {"model"})
    ELSE IF /\ st.searchAttempt > 0
            /\ SelectSeq(st.subQueries[1], Unanswered) # <<>>
            /\ ~alternatives.ok
    THEN {"model"}
    ELSE {}

Plan ==
    /\ CanRun("plan")
    /\ IF speedMode
       THEN Step("plan", PlanSpeed(state).upd, PlanSpeed(state).events, <<>>, {})
       ELSE \E extraction \in ExtractResponses, alternatives \in AltResponses :
               LET r == PlanNormal(state, extraction, alternatives)
               IN  Step("plan", r.upd, r.events, <<>>,
                        PlanFailures(state, extraction, alternatives))

----------------------------------------------------------------------------
(* search node: one query per invocation *)

\* results.data of firecrawl.search: up to MaxResults {url, content} records
SearchResponses ==
    UNION {[1..n -> [url : web, content : ResultTexts]] :
             n \in 0..Min(MaxResults, MAX_SOURCES_PER_SEARCH)}

\* quality is scored for every result; a summary is stored when the content
\* is long enough and the model returned a usable one
ProcessResult(r, query, summaryOk) ==
    Source(r.url, r.content, scoreContent(r.content, query),
           IF Truthy(r.content) /\ r.content.len > MIN_CONTENT_LENGTH /\ summaryOk
           THEN SummaryText ELSE EmptyText)

SearchQueriesOf(st) == IF st.searchQueries = None THEN <<>> ELSE st.searchQueries[1]

SearchPhaseEvents(st) ==
    IF st.currentSearchIndex = 0 THEN <<PhaseUpdate("searching")>> ELSE <<>>

SearchExhausted ==
    /\ CanRun("search")
    /\ state.currentSearchIndex >= Len(SearchQueriesOf(state))
    /\ Step("search", [phase |-> Some("scrape")], SearchPhaseEvents(state), <<>>, {})

\* variant of the catch block that treats a failed search like a failed
\* model call: the phase becomes error and the query is not passed
SearchFails_Aborts ==
    /\ CanRun("search")
    /\ state.currentSearchIndex < Len(SearchQueriesOf(state))
    /\ Step("search",
            [error |-> Some("Search failed"), errorType |-> Some("search"),
             phase |-> Some("error")],
            SearchPhaseEvents(state) \o <<Searching(state.currentSearchIndex + 1)>>,
            <<>>, {"search"})

\* variant of the catch block that passes over the next query as well
SearchFails_SkipsQuery ==
    /\ CanRun("search")
    /\ state.currentSearchIndex < Len(SearchQueriesOf(state))
    /\ Step("search",
            [currentSearchIndex |-> Some(state.currentSearchIndex + 2),
             errorType |-> Some("search")],
            SearchPhaseEvents(state) \o <<Searching(state.currentSearchIndex + 1)>>,
            <<>>, {"search"})

SearchFails ==
    /\ CanRun("search")
    /\ state.currentSearchIndex < Len(SearchQueriesOf(state))
    /\ Step("search",
            [currentSearchIndex |-> Some(state.currentSearchIndex + 1),
             errorType |-> Some("search")],
            SearchPhaseEvents(state) \o <<Searching(state.currentSearchIndex + 1)>>,
            <<>>, {"search"})

SearchSucceeds ==
    /\ CanRun("search")
    /\ state.currentSearchIndex < Len(SearchQueriesOf(state))
    /\ \E results \in SearchResponses :
       \E summaryOk \in [DOMAIN results -> BOOLEAN] :
          /\ \A i \in DOMAIN results :
                summaryOk[i] => results[i].content.len > MIN_CONTENT_LENGTH
          /\ LET newSources ==
                    [i \in DOMAIN results |->
                        ProcessResult(results[i], state.query, summaryOk[i])]
                 Completed(src) == SourceComplete
                 HasSummary(src) == Truthy(src.summary)
             IN  Step("search",
                      [sources |-> Some(newSources),
                       currentSearchIndex |-> Some(state.currentSearchIndex + 1)],
                      SearchPhaseEvents(state)
                          \o <<Searching(state.currentSearchIndex + 1), Found>>
                          \o SeqMap(Completed, SelectSeq(newSources, HasSummary)),
                      state.sources \o newSources, {})

----------------------------------------------------------------------------
(* scrape node *)

\* variant of the filter that sends every source to the fetcher
NeedsScrape_All(src) == src.url = src.url

NeedsScrape(src) == ~Truthy(src.content) \/ src.content.len < MIN_CONTENT_LENGTH
HasContent(src) == Truthy(src.content) /\ src.content.len >= MIN_CONTENT_LENGTH

\* what one scrapeUrl call does: a page (with or without a summary from
\* the model afterwards), a timeout result, another failure result, a throw
ScrapeOutcomes == {"page+summary", "page", "timeout", "failed", "throws"}

\* new URL(source.url) in the timeout branch and in the catch block
HostnameThrows(src, outcome) == outcome \in {"timeout", "throws"} /\ ~ValidUrl(src.url)

\* the loop over sourcesToScrape[1..k]: the records pushed, the events
\* emitted, the URLs given to scrapeUrl, and whether an exception left the
\* node
RECURSIVE ScrapeLoop(_, _, _, _, _)
ScrapeLoop(todo, outcomes, i, query, acc) ==
    IF i > Len(todo) \/ i > MAX_SOURCES_TO_SCRAPE THEN acc
    ELSE
        LET src == todo[i]
            o == outcomes[i]
            enriched == [src EXCEPT !.content = PageText,
                                    !.quality = scoreContent(PageText, query),
                                    !.summary = IF o = "page+summary" THEN SummaryText
                                                ELSE src.summary]
            fetched == Append(acc.fetched, src.url)
        IN  IF HostnameThrows(src, o)
            THEN [acc EXCEPT !.events = acc.events \o <<Scraping>>,
                             !.fetched = fetched,
                             !.threw = TRUE]
            ELSE IF o \in {"page+summary", "page"}
            THEN ScrapeLoop(todo, outcomes, i + 1, query,
                    [acc EXCEPT
                        !.sources = Append(acc.sources, enriched),
                        !.fetched = fetched,
                        !.events = acc.events
                            \o <<Scraping, SourceProcessing>>
                            \o (IF o = "page+summary" THEN <<SourceComplete>>
                                ELSE <<>>)])
            ELSE ScrapeLoop(todo, outcomes, i + 1, query,
                    [acc EXCEPT
                        !.fetched = fetched,
                        !.events = acc.events \o <<Scraping>>
                            \o (IF o = "failed" THEN <<>> ELSE <<Thinking>>)])

ScrapeRun(st, outcomes) ==
    ScrapeLoop(SelectSeq(st.sources, NeedsScrape), outcomes, 1, st.query,
               [sources |-> SelectSeq(st.sources, HasContent), events |-> <<>>,
                fetched |-> <<>>, threw |-> FALSE])

ScrapeChoices(st) ==
    [1..Min(Len(SelectSeq(st.sources, NeedsScrape)), MAX_SOURCES_TO_SCRAPE) -> ScrapeOutcomes]

Scrape ==
    /\ CanRun("scrape")
    /\ \E outcomes \in ScrapeChoices(state) :
          LET r == ScrapeRun(state, outcomes)
          IN  /\ ~r.threw
              /\ Step("scrape",
                      [scrapedSources |-> Some(r.sources), phase |-> Some("analyzing")],
                      r.events, <<>>, {})

\* an exception leaves the scrape node: graph.invoke rejects and the catch
\* block of search() reports it
ScrapeThrows ==
    /\ CanRun("scrape")
    /\ \E outcomes \in ScrapeChoices(state) :
          LET r == ScrapeRun(state, outcomes)
          IN  /\ r.threw
              /\ SearchCatch(r.events)

----------------------------------------------------------------------------
(* Context processor (processSources), relevance in thousandths *)

UsableSummary(src) == Truthy(src.summary) /\ src.summary.len > 20

\* extractKeywords: the tokens of the query
extractKeywords(query) == Range(query)

calculateRelevanceFromSummary(summary, query) ==
    LET keywords == extractKeywords(query)
        lowRelevance == \E w \in {"not directly related", "no specific information"} :
                            w \in summary.words
        highRelevance == \E w \in {"specifically mentions", "directly addresses"} :
                            w \in summary.words
        base == Min((summary.len * 1000) \div 2000, 1000)
        score == IF highRelevance THEN Min(base + 300, 1000) ELSE base
        matches == Cardinality({w \in keywords : Includes(summary, w)})
        keywordScore == IF Cardinality(keywords) > 0
                        THEN (matches * 1000) \div Cardinality(keywords) ELSE 500
    IN  IF lowRelevance THEN 100 ELSE (score * 6 + keywordScore * 4) \div 10

\* processSource / calculateRelevanceScore: the keyword fallback, every
\* keyword found counted as one occurrence
calculateRelevanceScore(content, query) ==
    LET keywords == extractKeywords(query)
        found == Cardinality({w \in keywords : Includes(content, w)})
        coverage == IF Cardinality(keywords) > 0
                    THEN (found * 1000) \div Cardinality(keywords) ELSE 0
        density == (found * 1000000) \div content.len
        normalizedDensity == Min(density \div 10, 1000)
    IN  (coverage * 7 + normalizedDensity * 3) \div 10

Processed(src, content, relevance) ==
    [url |-> src.url, content |-> content, quality |-> src.quality,
     summary |-> src.summary, relevanceScore |-> relevance]

\* variant in which summarizeSource calls the model for every source with
\* enough content, summarised already or not
NeedsModel_IgnoresSummary(src) == Truthy(src.content) /\ src.content.len >= 100

\* the sources for which summarizeSource calls the model
NeedsModel(src) ==
    ~UsableSummary(src) /\ Truthy(src.content) /\ src.content.len >= 100

\* modelOk: did the summarising model call for this source succeed
summarizeSource(src, query, modelOk) ==
    IF UsableSummary(src)
    THEN Processed(src, src.summary, calculateRelevanceFromSummary(src.summary, query))
    ELSE IF ~Truthy(src.content) \/ src.content.len < 100
    THEN Processed(src, src.content, 0)
    ELSE IF modelOk
    THEN Processed(src, SummaryText, calculateRelevanceFromSummary(SummaryText, query))
    ELSE Processed(src, src.content, calculateRelevanceScore(src.content, query))

MoreRelevant(a, b) == b.relevanceScore - a.relevanceScore < 0
BetterQuality(a, b) == b.quality - a.quality < 0
ContentOrSummary(src) == Truthy(src.content) \/ Truthy(src.summary)

\* sourcesWithSummaries.length >= Math.min(sources.length, 8)
TakesFastPath(sources) ==
    Len(SelectSeq(sources, UsableSummary)) >= Min(Len(sources), 8)

processSources(query, sources, modelOk) ==
    LET sourcesWithSummaries == SelectSeq(sources, UsableSummary)
        Fast(src) == Processed(src, src.summary,
                               IF src.quality = 0 THEN 700 ELSE src.quality * 100)
        sourcesToProcess ==
            Slice(StableSort(BetterQuality, SelectSeq(sources, ContentOrSummary)), 8)
        Summarize(src) == summarizeSource(src, query,
                                          IF NeedsModel(src) THEN modelOk[src.url] ELSE TRUE)
        Relevant(p) == p.relevanceScore > 0
    IN  IF TakesFastPath(sources)
        THEN StableSort(MoreRelevant, SeqMap(Fast, sourcesWithSummaries))
        ELSE StableSort(MoreRelevant,
                        SelectSeq(SeqMap(Summarize, sourcesToProcess), Relevant))

\* the sources processSources calls the model for: none on the fast path,
\* on the full path those of the eight it processes that reach generateText
processSourcesCalls(sources) ==
    LET sourcesWithSummaries == SelectSeq(sources, UsableSummary)
        sourcesToProcess ==
            Slice(StableSort(BetterQuality, SelectSeq(sources, ContentOrSummary)), 8)
    IN  IF TakesFastPath(sources)
        THEN {}
        ELSE {src.url : src \in {x \in Range(sourcesToProcess) : NeedsModel(x)}}

\* content.slice(0, n)
SliceText(text, n) == [text EXCEPT !.len = Min(text.len, n)]

\* extractedSections.join('\n\n[...]\n\n'): the separator has 9 characters
RECURSIVE JoinedLen(_)
JoinedLen(sections) ==
    IF sections = <<>> THEN 0
    ELSE IF Len(sections) = 1 THEN Head(sections).len
    ELSE Head(sections).len + 9 + JoinedLen(Tail(sections))

RECURSIVE TotalRelevance(_)
TotalRelevance(sources) ==
    IF sources = <<>> THEN 0
    ELSE Head(sources).relevanceScore + TotalRelevance(Tail(sources))

\* the allotment of one source: its share of the whole budget, at most the
\* ceiling and what is left, at least the floor
TargetChars(source, totalRelevance, remainingBudget) ==
    LET allocatedChars == (source.relevanceScore * MAX_TOTAL_CHARS) \div totalRelevance
    IN  Max(MIN_CHARS_PER_SOURCE,
            Min(Min(allocatedChars, MAX_CHARS_PER_SOURCE), remainingBudget))

\* the length of the content emitted for one source with the allotment
\* targetChars; '\n[... content truncated]' has 24 characters
EmittedLen(source, targetChars) ==
    LET joined == JoinedLen(source.extractedSections)
        processedContent ==
            IF Len(source.extractedSections) > 0
            THEN IF joined < targetChars /\ Truthy(source.content)
                 THEN Min(source.content.len, targetChars - joined) + 9 + joined
                 ELSE joined
            ELSE Min(source.content.len, targetChars)
    IN  IF processedContent > targetChars THEN targetChars + 24 ELSE processedContent

\* the loop of distributeCharacterBudget over the relevant sources; acc holds
\* the sources pushed so far, each with the allotment it was given
RECURSIVE BudgetLoop(_, _, _, _)
BudgetLoop(todo, totalRelevance, remainingBudget, acc) ==
    IF todo = <<>> \/ remainingBudget <= 0 THEN acc
    ELSE LET source == Head(todo)
             targetChars == TargetChars(source, totalRelevance, remainingBudget)
             emitted == EmittedLen(source, targetChars)
         IN  BudgetLoop(Tail(todo), totalRelevance, remainingBudget - emitted,
                        Append(acc, [source |-> [source EXCEPT !.content.len = emitted],
                                     targetChars |-> targetChars]))

\* distributeCharacterBudget(sources), each returned source paired with its
\* allotment (0 for the sources of the fallback, which have none)
distributeCharacterBudget(sources) ==
    LET Relevant(p) == p.relevanceScore > 0
        relevantSources == SelectSeq(sources, Relevant)
        Fallback(p) == [source |-> [p EXCEPT !.content = SliceText(p.content, MAX_CHARS_PER_SOURCE)],
                        targetChars |-> 0]
    IN  IF Len(relevantSources) = 0
        THEN SeqMap(Fallback, Slice(sources, 5))
        ELSE BudgetLoop(relevantSources, TotalRelevance(relevantSources), MAX_TOTAL_CHARS, <<>>)

----------------------------------------------------------------------------
(* analyze node *)

\* sources, then scrapedSources, into one Map by URL
MergeSources(st) == MapSetAll(MapSetAll(<<>>, st.sources), st.scrapedSources)

\* variant of the comparator that looks at the quality alone
SummaryThenQuality_QualityOnly(a, b) == b.quality - a.quality < 0

\* comparator of the speed-mode sort: summaries first, then quality
SummaryThenQuality(a, b) ==
    IF Truthy(a.summary) /\ ~Truthy(b.summary) THEN TRUE
    ELSE IF ~Truthy(a.summary) /\ Truthy(b.summary) THEN FALSE
    ELSE b.quality - a.quality < 0

SpeedProcess(allSources) ==
    Slice(StableSort(SummaryThenQuality, SelectSeq(allSources, ContentOrSummary)),
          MAX_SOURCES_TO_CHECK)

\* the first entry of the parsed response for each question: absent, or
\* the model's answered flag and confidence (the answer text and its source
\* list are fixed)
CheckEntries ==
    {[present |-> FALSE, answered |-> FALSE, confidence |-> 0]}
        \cup [present : {TRUE}, answered : BOOLEAN, confidence : ConfLevels]

\* a failed call, a response that JSON.parse rejects, a parsed value that is
\* not an array, or the parsed array: any entry per question for a short
\* plan, the same entry for every question of a long one
CheckResponses(subQueries) ==
    {[ok |-> FALSE, kind |-> k, results |-> <<>>] :
        k \in {"callFails", "notJson", "notArray"}}
        \cup (IF Len(subQueries) <= MaxSubQueries
              THEN {[ok |-> TRUE, kind |-> "array", results |-> r] :
                      r \in [DOMAIN subQueries -> CheckEntries]}
              ELSE {[ok |-> TRUE, kind |-> "array",
                     results |-> [i \in DOMAIN subQueries |-> e]] :
                      e \in CheckEntries})

\* variant that stores every result found, whatever its confidence
UpdateSubQuery_NoGuard(sq, result) ==
    IF result.present
    THEN [sq EXCEPT !.answered = result.confidence >= MIN_ANSWER_CONFIDENCE,
                    !.answer = Some("answer"),
                    !.confidence = result.confidence,
                    !.sources = sq.sources \cup {"https://a.example"}]
    ELSE sq

\* variant that copies the answered field of the model's response
UpdateSubQuery_ModelFlag(sq, result) ==
    IF result.present /\ result.confidence > sq.confidence
    THEN [sq EXCEPT !.answered = result.answered,
                    !.answer = Some("answer"),
                    !.confidence = result.confidence,
                    !.sources = sq.sources \cup {"https://a.example"}]
    ELSE sq

UpdateSubQuery(sq, result) ==
    IF result.present /\ result.confidence > sq.confidence
    THEN [sq EXCEPT !.answered = result.confidence >= MIN_ANSWER_CONFIDENCE,
                    !.answer = Some("answer"),
                    !.confidence = result.confidence,
                    !.sources = sq.sources \cup {"https://a.example"}]
    ELSE sq

\* variant whose catch block forgets what was known about the sub-queries
checkAnswersInSources_ResetsOnFailure(subQueries, sources, response) ==
    IF Len(sources) = 0 THEN subQueries
    ELSE IF response.kind # "array"
    THEN [i \in DOMAIN subQueries |->
             [subQueries[i] EXCEPT !.answered = FALSE, !.confidence = 0]]
    ELSE [i \in DOMAIN subQueries |-> UpdateSubQuery(subQueries[i], response.results[i])]

\* llm.invoke rejects, JSON.parse throws, or results.find is not a function:
\* each is thrown inside the try block and ends in its catch
checkAnswersInSources(subQueries, sources, response) ==
    IF Len(sources) = 0 THEN subQueries
    ELSE IF response.kind = "callFails" THEN subQueries
    ELSE IF response.kind = "notJson" THEN subQueries
    ELSE IF response.kind = "notArray" THEN subQueries
    ELSE [i \in DOMAIN subQueries |-> UpdateSubQuery(subQueries[i], response.results[i])]

IsAnswered(sq) == sq.answered
IsPartial(sq) == sq.confidence >= PARTIAL_CONFIDENCE

\* the outcomes of the model calls summarizeSource makes, per URL
ModelCalls(st) ==
    [{src.url : src \in {x \in Range(MergeSources(st)) : NeedsModel(x)}} -> BOOLEAN]

\* variant of the retry decision that does not look at the number of
\* attempts made
AnalyzeNormal_NoBudget(st, response, modelOk) ==
    IF st.subQueries = None
    THEN [sources |-> Some(MergeSources(st)),
          processedSources |-> Some(processSources(st.query, MergeSources(st), modelOk)),
          phase |-> Some("synthesizing")]
    ELSE
    LET allSources == MergeSources(st)
        updatedSubQueries == checkAnswersInSources(st.subQueries[1], allSources, response)
        answeredCount == Len(SelectSeq(updatedSubQueries, IsAnswered))
        searchAttempt == st.searchAttempt + 1
    IN  IF answeredCount < Len(updatedSubQueries) /\ searchAttempt < 4
        THEN [sources |-> Some(allSources),
              subQueries |-> Some(updatedSubQueries),
              searchAttempt |-> Some(searchAttempt),
              phase |-> Some("planning")]
        ELSE [sources |-> Some(allSources),
              processedSources |-> Some(processSources(st.query, allSources, modelOk)),
              subQueries |-> Some(updatedSubQueries),
              searchAttempt |-> Some(searchAttempt),
              phase |-> Some("synthesizing")]

\* modelOk: the summarising calls of the context processor, per URL
AnalyzeNormal(st, response, modelOk) ==
    IF st.subQueries = None
    THEN [sources |-> Some(MergeSources(st)),
          processedSources |-> Some(processSources(st.query, MergeSources(st), modelOk)),
          phase |-> Some("synthesizing")]
    ELSE
    LET allSources == MergeSources(st)
        updatedSubQueries == checkAnswersInSources(st.subQueries[1], allSources, response)
        answeredCount == Len(SelectSeq(updatedSubQueries, IsAnswered))
        totalQuestions == Len(updatedSubQueries)
        searchAttempt == st.searchAttempt + 1
        hasPartialInfo == Len(SelectSeq(updatedSubQueries, IsPartial)) > answeredCount
    IN  IF /\ answeredCount < totalQuestions
           /\ searchAttempt < MAX_SEARCH_ATTEMPTS
           /\ ~(hasPartialInfo /\ searchAttempt >= 2)
        THEN [sources |-> Some(allSources),
              subQueries |-> Some(updatedSubQueries),
              searchAttempt |-> Some(searchAttempt),
              phase |-> Some("planning")]
        ELSE [sources |-> Some(allSources),
              processedSources |-> Some(processSources(st.query, allSources, modelOk)),
              subQueries |-> Some(updatedSubQueries),
              searchAttempt |-> Some(searchAttempt),
              phase |-> Some("synthesizing")]

\* variant of the speed-mode analysis that reports an error when there is
\* nothing to analyze
AnalyzeSpeed_NeedsSources(st) ==
    IF MergeSources(st) = <<>>
    THEN [error |-> Some("No sources found"), errorType |-> Some("search"),
          phase |-> Some("error")]
    ELSE [sources |-> Some(MergeSources(st)),
          processedSources |-> Some(SpeedProcess(MergeSources(st))),
          phase |-> Some("synthesizing")]

AnalyzeSpeed(st) ==
    [sources |-> Some(MergeSources(st)),
     processedSources |-> Some(SpeedProcess(MergeSources(st))),
     phase |-> Some("synthesizing")]

AnalyzeEvents(st) ==
    IF speedMode /\ Len(MergeSources(st)) = 0
    THEN <<PhaseUpdate("analyzing")>>
    ELSE <<PhaseUpdate("analyzing"), Thinking>>

Analyze ==
    /\ CanRun("analyze")
    /\ IF speedMode
       THEN Step("analyze", AnalyzeSpeed(state), AnalyzeEvents(state),
                 state.sources \o state.scrapedSources, {})
       ELSE \E response \in CheckResponses(IF state.subQueries = None THEN <<>>
                                             ELSE state.subQueries[1]) :
            \E modelOk \in ModelCalls(state) :
               Step("analyze", AnalyzeNormal(state, response, modelOk),
                    AnalyzeEvents(state), state.sources \o state.scrapedSources,
                    IF ~response.ok \/ (\E u \in DOMAIN modelOk : ~modelOk[u])
                    THEN {"model"} ELSE {})

----------------------------------------------------------------------------
(* synthesize node *)

\* the text the model produces, as its chunks
AnswerChunk(i) == <<i>>
FullText == [i \in 1..MaxChunks |-> i]

\* modelToUse.stream: the number of chunks delivered and whether the stream
\* then ended normally; modelToUse.invoke: whether the fallback call succeeds
\* (asked for only when the stream failed)
StreamOutcomes ==
    {o \in [chunks : 0..MaxChunks, completed : BOOLEAN, fallbackOk : BOOLEAN] :
        o.completed => o.fallbackOk}

generateStreamingAnswer(o) ==
    LET streamedText == [i \in 1..o.chunks |-> i]
        chunkEvents == [i \in 1..o.chunks |-> ContentChunk(AnswerChunk(i))]
    IN  IF o.completed
        THEN [threw |-> FALSE, text |-> streamedText, events |-> chunkEvents]
        ELSE IF o.fallbackOk
        THEN [threw |-> FALSE, text |-> FullText,
              events |-> chunkEvents \o <<ContentChunk(FullText)>>]
        ELSE [threw |-> TRUE, text |-> <<>>, events |-> chunkEvents]

\* state.processedSources || state.sources || []
SourcesToUse(st) == IF st.processedSources # None THEN st.processedSources[1] ELSE st.sources

\* the sources of the prompt of generateStreamingAnswer, in the order of
\* their labels: the n-th one is printed as [n]
optimizedSources(sources) ==
    Slice(StableSort(BetterQuality, SelectSeq(sources, ContentOrSummary)),
          MAX_SOURCES_TO_CHECK)

\* the follow-up response as the lengths of its trimmed lines: a failed
\* call, a response without a line that can be shown, one with more lines
\* than are kept
FollowUpResponses ==
    {[ok |-> FALSE, lines |-> <<>>],
     [ok |-> TRUE, lines |-> <<0, 80, 75>>],
     [ok |-> TRUE, lines |-> <<40, 0, 80, 74, 75, 60, 50>>]}

\* variant of the filter that lets a line of 75 characters pass
DisplayableLine_Inclusive(n) == n > 0 /\ n <= 75

DisplayableLine(n) == n > 0 /\ n < 75

generateFollowUpQuestions(response) ==
    IF response.ok THEN Slice(SelectSeq(response.lines, DisplayableLine), 3) ELSE <<>>

\* what the synthesize node returns and emits, and which of its model calls
\* failed
SynthesizeRun(o, f) ==
    LET a == generateStreamingAnswer(o)
    IN  IF a.threw
        THEN [upd |-> [error |-> Some("Failed to generate answer"),
                       errorType |-> Some("llm"), phase |-> Some("error")],
              events |-> <<PhaseUpdate("synthesizing")>> \o a.events,
              failures |-> {"model"}]
        ELSE [upd |-> [finalAnswer |-> Some(a.text),
                       followUpQuestions |-> Some(generateFollowUpQuestions(f)),
                       phase |-> Some("complete")],
              events |-> <<PhaseUpdate("synthesizing")>> \o a.events,
              failures |-> IF o.completed /\ f.ok THEN {} ELSE {"model"}]

Synthesize ==
    /\ CanRun("synthesize")
    /\ \E o \in StreamOutcomes, f \in FollowUpResponses :
          Step("synthesize", SynthesizeRun(o, f).upd, SynthesizeRun(o, f).events, <<>>,
               SynthesizeRun(o, f).failures)

----------------------------------------------------------------------------
(* handleError and complete nodes *)

MaxRetriesOf(st) == IF st.maxRetries = 0 THEN MAX_RETRIES ELSE st.maxRetries

RetryPhase(st) == IF st.errorType = Some("search") THEN "searching" ELSE "understanding"

\* variant that retries without counting the retry
HandleErrorUpdate_KeepsCount(st) ==
    IF st.retryCount < MaxRetriesOf(st)
    THEN [phase |-> Some(RetryPhase(st)),
          error |-> None,
          errorType |-> None]
    ELSE [phase |-> Some("error")]

\* variant that retries while retryCount <= maxRetries
HandleErrorUpdate_OffByOne(st) ==
    IF st.retryCount <= MaxRetriesOf(st)
    THEN [retryCount |-> Some(st.retryCount + 1),
          phase |-> Some(RetryPhase(st)),
          error |-> None,
          errorType |-> None]
    ELSE [phase |-> Some("error")]

HandleErrorUpdate(st) ==
    IF st.retryCount < MaxRetriesOf(st)
    THEN [retryCount |-> Some(st.retryCount + 1),
          phase |-> Some(RetryPhase(st)),
          error |-> None,
          errorType |-> None]
    ELSE [phase |-> Some("error")]

HandleError ==
    /\ CanRun("handleError")
    /\ Step("handleError", HandleErrorUpdate(state), <<ErrorEvent(state.errorType)>>, <<>>,
            {})

\* variant of the complete node that announces the phase only
CompleteEvents_NoFinalResult(st) == <<PhaseUpdate("complete")>>

\* variant of the complete node whose final-result carries no sources
CompleteEvents_NoSources(st) ==
    <<PhaseUpdate("complete"),
      FinalResult(IF st.finalAnswer = None THEN <<>> ELSE st.finalAnswer[1],
                  <<>>, st.followUpQuestions)>>

CompleteEvents(st) ==
    <<PhaseUpdate("complete"),
      FinalResult(IF st.finalAnswer = None THEN <<>> ELSE st.finalAnswer[1],
                  st.sources, st.followUpQuestions)>>

Complete ==
    /\ CanRun("complete")
    /\ Step("complete", [phase |-> Some("complete")], CompleteEvents(state), <<>>, {})

----------------------------------------------------------------------------
(* graph.invoke under recursionLimit, and its return *)

\* the graph has not reached END within the limit: GraphRecursionError
RecursionLimitExceeded ==
    /\ runStatus = "running"
    /\ node # "END"
    /\ steps >= RECURSION_LIMIT
    /\ SearchCatch(<<>>)

\* the graph reached END: invoke returns and search() resolves
Finish ==
    /\ runStatus = "running"
    /\ node = "END"
    /\ runStatus' = "resolved"
    /\ UNCHANGED <<state, node, steps, stream, speedMode, web, understandRuns, rounds, contributed, failed, probe>>

Next ==
    \/ Understand
    \/ Plan
    \/ SearchExhausted
    \/ SearchFails
    \/ SearchSucceeds
    \/ Scrape
    \/ ScrapeThrows
    \/ Analyze
    \/ Synthesize
    \/ HandleError
    \/ Complete
    \/ RecursionLimitExceeded
    \/ Finish

Spec == Init /\ [][Next]_vars

\* a running graph always takes its next step: every external call returns
FairSpec == Spec /\ WF_vars(Next)

----------------------------------------------------------------------------
(* A second search() on the same engine, after a first one has returned *)

\* initialState as graph.invoke writes it to the channels: one write per
\* key, undefined for the keys search() sets to undefined
InputUpdate(q) ==
    [k \in DOMAIN InitialState(q) |->
        IF k \in OptionalFields THEN InitialState(q)[k] ELSE Some(InitialState(q)[k])]

\* the channel values the graph starts from: without a checkpoint of the
\* thread the input alone, with one the input applied to the saved values
\* through the reducers
StartState(q, saved) ==
    IF saved = None THEN InitialState(q) ELSE ApplyUpdate(saved[1], InputUpdate(q))

\* search(query, onEvent, context, checkpointId) up to the first node of the
\* graph; enableCheckpointing is the option the engine was built with and
\* sameThread says whether checkpointId is the one of the run that returned
SearchAgain ==
    /\ runStatus = "resolved"
    /\ \E q \in Queries, enableCheckpointing \in BOOLEAN, sameThread \in BOOLEAN :
          /\ state' = StartState(q, IF enableCheckpointing /\ sameThread
                                     THEN Some(state) ELSE None)
          /\ probe' = [fn |-> "search", enableCheckpointing |-> enableCheckpointing,
                        sameThread |-> sameThread, earlier |-> state]
    /\ node' = "understand"
    /\ steps' = 0
    /\ runStatus' = "starting"
    /\ UNCHANGED <<stream, speedMode, web, understandRuns, rounds, contributed, failed>>

RerunNext ==
    \/ Understand
    \/ Plan
    \/ SearchExhausted
    \/ SearchFails
    \/ SearchSucceeds
    \/ Scrape
    \/ ScrapeThrows
    \/ Analyze
    \/ Synthesize
    \/ HandleError
    \/ Complete
    \/ RecursionLimitExceeded
    \/ Finish
    \/ SearchAgain

RerunSpec == Init /\ [][RerunNext]_vars

----------------------------------------------------------------------------
(* The server action search() with the LangGraph engine: the engine run of
   Spec, its events passed to stream.update, beside the timeout callback.
   stream holds what the engine has emitted; probe holds the streamable
   value: whether it is closed, the last event it took, and the calls of
   stream.done *)

\* the fetcher's web in the runs followed beside the timeout: every URL
\* under direct planning, no URL under decomposed planning
ServerWebs(speed) == IF speed THEN {Urls} ELSE {{}}

ServerInit ==
    /\ state \in {InitialState(q) : q \in Queries}
    /\ node = "understand"
    /\ steps = 0
    /\ runStatus = "running"
    /\ stream = [tail |-> <<>>, count |-> 0, errors |-> 0, finals |-> 0, afterError |-> FALSE]
    /\ speedMode \in BOOLEAN
    /\ web \in ServerWebs(speedMode)
    /\ understandRuns = 0
    /\ rounds = [started |-> 0, replans |-> 0]
    /\ contributed = [content |-> {}, summary |-> {}]
    /\ failed = {}
    /\ probe = [fn |-> "server", timer |-> "armed", closed |-> FALSE,
                last |-> None, doneCalls |-> 0, doneThrew |-> FALSE, returned |-> FALSE]

\* the setTimeout callback: it runs while the engine run is awaited
TimeoutFires ==
    /\ probe.fn = "server"
    /\ probe.timer = "armed"
    /\ runStatus = "running"
    /\ probe' = [probe EXCEPT !.timer = "fired", !.closed = TRUE,
                              !.last = Some(ErrorEvent(Some("unknown"))),
                              !.doneCalls = @ + 1]
    /\ UNCHANGED <<state, node, steps, runStatus, stream, speedMode, web, understandRuns, rounds,
                   contributed, failed>>

\* searchEngine.search has resolved: clearTimeout, then the finally block
\* calls stream.done(), which throws on a closed stream
SearchReturns ==
    /\ probe.fn = "server"
    /\ ~probe.returned
    /\ runStatus = "resolved"
    /\ probe' = [probe EXCEPT !.timer = IF @ = "armed" THEN "cleared" ELSE @,
                              !.closed = TRUE,
                              !.last = IF probe.closed THEN @
                                       ELSE IF stream.tail = <<>> THEN None
                                       ELSE Some(stream.tail[Len(stream.tail)]),
                              !.doneCalls = @ + 1,
                              !.doneThrew = probe.closed,
                              !.returned = TRUE]
    /\ UNCHANGED <<state, node, steps, runStatus, stream, speedMode, web, understandRuns, rounds,
                   contributed, failed>>

ServerNext ==
    \/ Understand
    \/ Plan
    \/ SearchExhausted
    \/ SearchFails
    \/ SearchSucceeds
    \/ Scrape
    \/ ScrapeThrows
    \/ Analyze
    \/ Synthesize
    \/ HandleError
    \/ Complete
    \/ RecursionLimitExceeded
    \/ Finish
    \/ TimeoutFires
    \/ SearchReturns

ServerSpec == ServerInit /\ [][ServerNext]_vars

----------------------------------------------------------------------------
(* TavilySearchEngine.search, its events passed to stream.update by the
   server action; probe holds how far the call has come and what it holds *)

\* data.results of the Tavily response: up to MaxResults results
TavilyResponses ==
    UNION {[1..n -> [url : Urls, content : {EmptyText, LongText, BigPage}, score : {0, 9}]] :
             n \in 0..MaxResults}

\* data.follow_up_questions: absent, or a list (of line lengths)
TavilyFollowUps == {None, Some(<<>>), Some(<<40>>)}

\* a Tavily result as a source: the content is its own summary, cut to 300
\* characters and '...' when it is longer
TavilySource(result) ==
    Source(result.url, result.content, result.score,
           IF result.content.len > 300
           THEN [result.content EXCEPT !.len = 303] ELSE result.content)

\* generateStreamingAnswer of the Tavily engine: the chunks of the stream,
\* and the whole response as one more chunk when the stream failed
TavilyStreamingAnswer(o) ==
    LET streamedText == [i \in 1..o.chunks |-> i]
        chunkEvents == [i \in 1..o.chunks |-> ContentChunk(AnswerChunk(i))]
    IN  IF o.completed
        THEN [threw |-> FALSE, text |-> streamedText, events |-> chunkEvents]
        ELSE IF o.fallbackOk
        THEN [threw |-> FALSE, text |-> FullText,
              events |-> chunkEvents \o <<ContentChunk(FullText)>>]
        ELSE [threw |-> TRUE, text |-> <<>>, events |-> chunkEvents]

TavilyInit ==
    /\ state = InitialState(<<"a", "b">>)
    /\ node = "understand"
    /\ steps = 0
    /\ runStatus = "idle"
    /\ stream = [tail |-> <<>>, count |-> 0, errors |-> 0, finals |-> 0, afterError |-> FALSE]
    /\ speedMode = TRUE
    /\ web = {}
    /\ understandRuns = 0
    /\ rounds = [started |-> 0, replans |-> 0]
    /\ contributed = [content |-> {}, summary |-> {}]
    /\ failed = {}
    /\ probe = [fn |-> "tavily", pc |-> "start", sources |-> <<>>, followUps |-> None]

TavilyFrame ==
    UNCHANGED <<state, node, steps, runStatus, speedMode, web, understandRuns, rounds,
                contributed, failed>>

\* the events up to the request
TavilyOpening == <<PhaseUpdate("understanding"), Thinking, PhaseUpdate("searching")>>

\* the request fails, the response is not ok or cannot be read: catch block
TavilyFetchFails ==
    /\ probe.fn = "tavily" /\ probe.pc = "start"
    /\ stream' = EmitAll(stream, TavilyOpening \o <<ErrorEvent(Some("search"))>>)
    /\ probe' = [probe EXCEPT !.pc = "failed"]
    /\ TavilyFrame

\* the response is read: the sources are announced and the answer is asked for
TavilyFetchReturns ==
    /\ probe.fn = "tavily" /\ probe.pc = "start"
    /\ \E results \in TavilyResponses, followUps \in TavilyFollowUps :
          probe' = [probe EXCEPT !.pc = "answer",
                                  !.sources = SeqMap(TavilySource, results),
                                  !.followUps = followUps]
    /\ stream' = EmitAll(stream, TavilyOpening \o
                            <<Found, PhaseUpdate("analyzing"), Thinking,
                              PhaseUpdate("synthesizing")>>)
    /\ TavilyFrame

\* the stream and the fallback call both fail: catch block of search
TavilyAnswerFails ==
    /\ probe.fn = "tavily" /\ probe.pc = "answer"
    /\ \E o \in StreamOutcomes :
          /\ TavilyStreamingAnswer(o).threw
          /\ stream' = EmitAll(stream, TavilyStreamingAnswer(o).events
                                          \o <<ErrorEvent(Some("search"))>>)
    /\ probe' = [probe EXCEPT !.pc = "failed"]
    /\ TavilyFrame

\* the answer is there: follow-up questions of the response, or generated
\* ones when it has none; then the final result and the last phase update
TavilyAnswerReturns ==
    /\ probe.fn = "tavily" /\ probe.pc = "answer"
    /\ \E o \in StreamOutcomes, f \in FollowUpResponses :
          /\ ~TavilyStreamingAnswer(o).threw
          /\ stream' = EmitAll(stream, TavilyStreamingAnswer(o).events \o
                <<FinalResult(TavilyStreamingAnswer(o).text, probe.sources,
                              IF probe.followUps # None THEN probe.followUps[1]
                              ELSE generateFollowUpQuestions(f)),
                  PhaseUpdate("complete")>>)
    /\ probe' = [probe EXCEPT !.pc = "succeeded"]
    /\ TavilyFrame

TavilyNext ==
    \/ TavilyFetchFails
    \/ TavilyFetchReturns
    \/ TavilyAnswerFails
    \/ TavilyAnswerReturns

TavilySpec == TavilyInit /\ [][TavilyNext]_vars

----------------------------------------------------------------------------
(* The pure functions, called on their own with arguments from bounded sets *)

\* the tokens of query.split(' '): words, and the empty token that two
\* adjacent blanks or an empty query leave
ScoreWords == {"a", "b", ""}

ScoreQueries == UNION {[1..n -> ScoreWords] : n \in 1..MaxQueryWords}

ScoreContents == {[len |-> 10 * Cardinality(w), words |-> w] : w \in SUBSET {"a", "b"}}

\* the run is not started: only the function under study is called
PureInit ==
    /\ state = InitialState(<<"a", "b">>)
    /\ node = "understand"
    /\ steps = 0
    /\ runStatus = "idle"
    /\ stream = [tail |-> <<>>, count |-> 0, errors |-> 0, finals |-> 0, afterError |-> FALSE]
    /\ speedMode = TRUE
    /\ web = {}
    /\ understandRuns = 0
    /\ rounds = [started |-> 0, replans |-> 0]
    /\ contributed = [content |-> {}, summary |-> {}]
    /\ failed = {}
    /\ probe = [fn |-> "none"]

PureCall(call) ==
    /\ probe.fn = "none"
    /\ probe' = call
    /\ UNCHANGED <<state, node, steps, runStatus, stream, speedMode, web, understandRuns, rounds,
                   contributed, failed>>

\* scoreContent(content, query)
CallScoreContent ==
    \E content \in ScoreContents, query \in ScoreQueries :
        PureCall([fn |-> "scoreContent", content |-> content, query |-> query,
                  calls |-> 1, result |-> scoreContent(content, query),
                  again |-> scoreContent(content, query)])

\* the same call once more, after the first
RepeatScoreContent ==
    /\ probe.fn = "scoreContent"
    /\ probe.calls = 1
    /\ probe' = [probe EXCEPT !.calls = 2,
                              !.again = scoreContent(probe.content, probe.query)]
    /\ UNCHANGED <<state, node, steps, runStatus, stream, speedMode, web, understandRuns, rounds,
                   contributed, failed>>

\* a summary of exactly 20 characters, one too short to be reused
ShortSummary == [len |-> 20, words |-> {"a"}]

\* the URL of the i-th source of a list: one URL per position
ProbeUrl(i) == <<"https://example", i>>

\* source lists with distinct URLs, as the analyze node passes them
ProbeSources ==
    UNION {{[i \in 1..n |-> Source(ProbeUrl(i), f[i].content, f[i].quality, f[i].summary)] :
              f \in [1..n -> [content : {EmptyText, LongText}, quality : {0, 4},
                              summary : {EmptyText, ShortSummary, SummaryText}]]} :
           n \in 0..MaxProbeSources}

\* what a source of a merged list can look like
SourceKinds ==
    [content : {EmptyText, LongText}, quality : {0, 9}, summary : {EmptyText, SummaryText}]

\* long source lists with distinct URLs: a pattern of three kinds, repeated
LongSources ==
    {[i \in 1..MaxMergedSources |->
         Source(ProbeUrl(i), pat[((i - 1) % 3) + 1].content, pat[((i - 1) % 3) + 1].quality,
                pat[((i - 1) % 3) + 1].summary)] :
       pat \in [1..3 -> SourceKinds]}

\* processSources(query, sources, ...): every model call it makes succeeds
CallProcessSources ==
    \E sources \in ProbeSources \cup LongSources, query \in Queries :
        PureCall([fn |-> "processSources", sources |-> sources, query |-> query,
                  fast |-> TakesFastPath(sources),
                  modelCalls |-> processSourcesCalls(sources),
                  result |-> processSources(query, sources,
                                            [u \in {ProbeUrl(i) : i \in 1..MaxMergedSources} |-> TRUE])])

\* source lists whose sources have no summary yet and a page as content
PageSources ==
    UNION {{[i \in 1..n |-> Source(ProbeUrl(i), f[i].content, f[i].quality, EmptyText)] :
              f \in [1..n -> [content : {LongText, BigPage}, quality : {0, 4}]]} :
           n \in 1..MaxProbeSources}

\* processSources(query, sources, ...): the model calls it makes succeed or
\* fail, one by one
CallProcessSourcesModelFails ==
    \E sources \in PageSources, query \in Queries,
       modelOk \in [{ProbeUrl(i) : i \in 1..MaxProbeSources} -> BOOLEAN] :
        PureCall([fn |-> "processSources", sources |-> sources, query |-> query,
                  fast |-> TakesFastPath(sources),
                  modelCalls |-> processSourcesCalls(sources),
                  modelOk |-> modelOk,
                  result |-> processSources(query, sources, modelOk)])

\* the processed sources distributeCharacterBudget can be given
BudgetSources ==
    UNION {[1..n -> [relevanceScore : {0, 300, 900},
                     content : {EmptyText, LongText, BigPage},
                     extractedSections : {<<>>, <<LongText>>, <<LongText, BigPage>>}]] :
           n \in 0..MaxBudgetSources}

CallDistributeCharacterBudget ==
    \E sources \in BudgetSources :
        PureCall([fn |-> "distributeCharacterBudget", sources |-> sources,
                  result |-> distributeCharacterBudget(sources)])

\* the state a speed-mode run has when the scrape node starts, with the
\* given sources found
SpeedStateAtScrape(sources) ==
    [InitialState(<<"a", "b">>) EXCEPT
        !.sources = sources,
        !.understanding = Some("understanding"),
        !.searchQueries = Some(<<UserQuery>>),
        !.currentSearchIndex = 1,
        !.phase = "searching"]

\* the scrape node, every fetch with the same outcome (a page with or
\* without a summary, or a failure), then the speed-mode analyze node and
\* its edge
CallAnalyzeSpeed ==
    \E sources \in ProbeSources \cup LongSources :
    \E o \in {"page+summary", "page", "failed"} :
        LET st0 == SpeedStateAtScrape(sources)
            scraped == ScrapeRun(st0, [i \in 1..Min(Len(SelectSeq(st0.sources, NeedsScrape)),
                                                     MAX_SOURCES_TO_SCRAPE) |-> o])
            st1 == ApplyUpdate(st0, [scrapedSources |-> Some(scraped.sources),
                                     phase |-> Some("analyzing")])
            st2 == ApplyUpdate(st1, AnalyzeSpeed(st1))
        IN  PureCall([fn |-> "analyzeSpeed",
                      merged |-> MergeSources(st1),
                      processed |-> st2.processedSources,
                      subQueries |-> st2.subQueries,
                      phase |-> st2.phase,
                      next |-> Route("analyze", st2)])

\* the scrape node on a state with the given sources: the URLs it gives to
\* scrapeUrl and the scrapedSources it returns
CallScrape ==
    \E sources \in ProbeSources \cup LongSources :
    \E o \in {"page+summary", "page", "failed"} :
        LET st0 == SpeedStateAtScrape(sources)
            r == ScrapeRun(st0, [i \in 1..Min(Len(SelectSeq(st0.sources, NeedsScrape)),
                                               MAX_SOURCES_TO_SCRAPE) |-> o])
        IN  PureCall([fn |-> "scrape", sources |-> sources,
                      fetched |-> r.fetched, output |-> r.sources])

\* what an earlier answer check can have left in a sub-query
KnownSubQueries ==
    {[NewSubQuery([question |-> 1, searchQuery |-> 1]) EXCEPT
         !.answered = c >= MIN_ANSWER_CONFIDENCE,
         !.confidence = c,
         !.answer = IF c > 0 THEN Some("answer") ELSE None,
         !.sources = IF c > 0 THEN {"https://a.example"} ELSE {}] : c \in {0} \cup ConfLevels}

\* the full-mode analyze node and its edge, on a state with one sub-query
\* and the given sources
CallAnalyzeNormal ==
    \E sq \in KnownSubQueries, attempt \in 0..(MAX_SEARCH_ATTEMPTS - 1) :
    \E sources \in {ss \in ProbeSources : Len(ss) <= 1} :
    \E response \in CheckResponses(<<sq>>) :
        LET st0 == [SpeedStateAtScrape(sources) EXCEPT
                       !.subQueries = Some(<<sq>>),
                       !.searchQueries = Some(<<sq.searchQuery>>),
                       !.searchAttempt = attempt,
                       !.phase = "analyzing"]
            st1 == ApplyUpdate(st0, AnalyzeNormal(st0, response,
                                        [u \in {ProbeUrl(i) : i \in 1..MaxProbeSources} |-> TRUE]))
        IN  PureCall([fn |-> "analyzeNormal",
                      subQueries |-> <<sq>>, sources |-> sources, response |-> response,
                      checked |-> st1.subQueries,
                      phase |-> st1.phase,
                      next |-> Route("analyze", st1)])

\* the synthesize node and its edge, on a state whose analysis is done
CallSynthesize ==
    \E o \in StreamOutcomes, f \in FollowUpResponses :
    \E sources \in {ss \in ProbeSources : Len(ss) <= 1} :
        LET st0 == [SpeedStateAtScrape(sources) EXCEPT
                       !.processedSources = Some(sources), !.phase = "synthesizing"]
            st1 == ApplyUpdate(st0, SynthesizeRun(o, f).upd)
        IN  PureCall([fn |-> "synthesize", answer |-> o, followUp |-> f,
                      sources |-> sources,
                      followUpQuestions |-> st1.followUpQuestions,
                      events |-> SynthesizeRun(o, f).events,
                      finalAnswer |-> st1.finalAnswer,
                      phase |-> st1.phase,
                      next |-> Route("synthesize", st1)])

PureNext ==
    \/ CallSynthesize
    \/ CallAnalyzeNormal
    \/ CallScrape
    \/ CallScoreContent
    \/ RepeatScoreContent
    \/ CallProcessSources
    \/ CallAnalyzeSpeed
    \/ CallProcessSourcesModelFails
    \/ CallDistributeCharacterBudget

PureSpec == PureInit /\ [][PureNext]_vars

----------------------------------------------------------------------------
(* The search node with its concurrent summaries followed one by one:
   Promise.all over newSources.map(async ...) runs every callback up to its
   first await when the map is built, then resumes the callbacks one at a
   time, in the order in which their summarizeContent calls settle *)

ParFound(q) == [type |-> "found", q |-> q]
ParComplete(q, u) == [type |-> "source-complete", q |-> q, url |-> u]

\* the state after understand and a plan of MaxParQueries sub-questions
ParState ==
    LET st0 == ApplyUpdate(InitialState(<<"a", "b">>),
                           [understanding |-> Some("understanding"),
                            phase |-> Some("planning")])
    IN  ApplyUpdate(st0, PlanNormal(st0, [kind |-> "array", n |-> MaxParQueries],
                                    [ok |-> FALSE, lines |-> 0]).upd)

ParInit ==
    /\ state = ParState
    /\ node = "search"
    /\ steps = 2
    /\ runStatus = "running"
    /\ stream = [tail |-> <<>>, count |-> 0, errors |-> 0, finals |-> 0, afterError |-> FALSE]
    /\ speedMode = FALSE
    /\ web = Urls
    /\ understandRuns = 1
    /\ rounds = [started |-> 1, replans |-> 0]
    /\ contributed = [content |-> {}, summary |-> {}]
    /\ failed = {}
    /\ probe = [fn |-> "search", stage |-> "idle", q |-> 0, returned |-> FALSE,
                results |-> <<>>, summaryOk |-> <<>>, before |-> <<>>,
                newSources |-> <<>>, pending |-> {}, order |-> <<>>, log |-> <<>>]

ParFrame ==
    UNCHANGED <<steps, runStatus, stream, speedMode, web, understandRuns, rounds,
                contributed, failed>>

\* the search node up to Promise.all: the events, the fetch, and the
\* synchronous part of every callback (the quality, and the call of
\* summarizeContent for content that is long enough)
ParSearchStart ==
    /\ probe.stage = "idle" /\ node = "search"
    /\ state.currentSearchIndex < Len(SearchQueriesOf(state))
    /\ \E results \in SearchResponses :
       \E summaryOk \in [DOMAIN results -> BOOLEAN] :
          /\ \A i \in DOMAIN results :
                summaryOk[i] => results[i].content.len > MIN_CONTENT_LENGTH
          /\ LET q == state.currentSearchIndex + 1
                 Summarised(i) == /\ Truthy(results[i].content)
                                  /\ results[i].content.len > MIN_CONTENT_LENGTH
             IN  probe' = [probe EXCEPT
                    !.stage = "summarizing", !.q = q, !.returned = FALSE,
                    !.results = results, !.summaryOk = summaryOk,
                    !.before = state.sources,
                    !.newSources =
                        [i \in DOMAIN results |->
                            Source(results[i].url, results[i].content,
                                   scoreContent(results[i].content, state.query),
                                   EmptyText)],
                    !.pending = probe.pending \cup
                        {[q |-> q, i |-> i, ok |-> summaryOk[i], url |-> results[i].url] :
                           i \in {j \in DOMAIN results : Summarised(j)}},
                    !.order = <<>>,
                    !.log = probe.log \o SearchPhaseEvents(state)
                                \o <<Searching(q), ParFound(q)>>]
    /\ UNCHANGED <<state, node>>
    /\ ParFrame

\* firecrawl.search throws: the catch block of the node
ParSearchFails ==
    /\ probe.stage = "idle" /\ node = "search"
    /\ state.currentSearchIndex < Len(SearchQueriesOf(state))
    /\ state' = ApplyUpdate(state,
                    [currentSearchIndex |-> Some(state.currentSearchIndex + 1),
                     errorType |-> Some("search")])
    /\ node' = Route("search", state')
    /\ probe' = [probe EXCEPT
            !.q = state.currentSearchIndex + 1, !.returned = FALSE,
            !.log = probe.log \o SearchPhaseEvents(state)
                        \o <<Searching(state.currentSearchIndex + 1)>>]
    /\ ParFrame

\* one summarizeContent call settles and its callback runs to the end: a
\* usable summary is stored in the callback's own source object and
\* announced
ParSummaryDone ==
    /\ \E t \in probe.pending :
          probe' = [probe EXCEPT
              !.pending = probe.pending \ {t},
              !.order = IF t.q = probe.q /\ probe.stage = "summarizing"
                        THEN Append(probe.order, t.i) ELSE probe.order,
              !.newSources =
                  IF t.q = probe.q /\ probe.stage = "summarizing" /\ t.ok
                  THEN [probe.newSources EXCEPT ![t.i].summary = SummaryText]
                  ELSE probe.newSources,
              !.log = IF t.ok THEN Append(probe.log, ParComplete(t.q, t.url))
                      ELSE probe.log]
    /\ UNCHANGED <<state, node>>
    /\ ParFrame

\* variant of the return in which the node hands over the sources in the
\* order in which their callbacks ended
ParSearchReturn_ByCompletion ==
    /\ probe.stage = "summarizing" /\ probe.pending = {}
    /\ LET NoTask(i) == i \notin Range(probe.order)
           indices == SelectSeq([i \in DOMAIN probe.newSources |-> i], NoTask)
                          \o probe.order
       IN  state' = ApplyUpdate(state,
                [sources |-> Some([k \in DOMAIN indices |-> probe.newSources[indices[k]]]),
                 currentSearchIndex |-> Some(state.currentSearchIndex + 1)])
    /\ node' = Route("search", state')
    /\ probe' = [probe EXCEPT !.stage = "idle", !.returned = TRUE]
    /\ ParFrame

\* variant of the return that does not wait for the callbacks
ParSearchReturn_NoAwait ==
    /\ probe.stage = "summarizing"
    /\ state' = ApplyUpdate(state,
                    [sources |-> Some(probe.newSources),
                     currentSearchIndex |-> Some(state.currentSearchIndex + 1)])
    /\ node' = Route("search", state')
    /\ probe' = [probe EXCEPT !.stage = "idle", !.returned = TRUE]
    /\ ParFrame

\* Promise.all has resolved: the node returns its update
ParSearchReturn ==
    /\ probe.stage = "summarizing" /\ probe.pending = {}
    /\ state' = ApplyUpdate(state,
                    [sources |-> Some(probe.newSources),
                     currentSearchIndex |-> Some(state.currentSearchIndex + 1)])
    /\ node' = Route("search", state')
    /\ probe' = [probe EXCEPT !.stage = "idle", !.returned = TRUE]
    /\ ParFrame

\* the scrape node, every fetch with the same outcome
ParScrape ==
    /\ probe.stage = "idle" /\ node = "scrape"
    /\ \E o \in {"page", "failed"} :
          LET r == ScrapeRun(state,
                             [i \in 1..Min(Len(SelectSeq(state.sources, NeedsScrape)),
                                            MAX_SOURCES_TO_SCRAPE) |-> o])
          IN  /\ state' = ApplyUpdate(state, [scrapedSources |-> Some(r.sources),
                                              phase |-> Some("analyzing")])
              /\ probe' = [probe EXCEPT !.log = probe.log \o r.events]
    /\ node' = Route("scrape", state')
    /\ ParFrame

\* the analyze node; what follows it is not part of this study
ParAnalyze ==
    /\ probe.stage = "idle" /\ node = "analyze"
    /\ \E response \in CheckResponses(state.subQueries[1]) :
       \E modelOk \in ModelCalls(state) :
          state' = ApplyUpdate(state, AnalyzeNormal(state, response, modelOk))
    /\ node' = "END"
    /\ probe' = [probe EXCEPT !.stage = "analyzed",
                              !.log = probe.log \o AnalyzeEvents(state)]
    /\ ParFrame

ParNext ==
    \/ ParSearchStart
    \/ ParSearchFails
    \/ ParSummaryDone
    \/ ParSearchReturn
    \/ ParScrape
    \/ ParAnalyze

ParallelSpec == ParInit /\ [][ParNext]_vars

----------------------------------------------------------------------------
(* Properties *)

Ended == runStatus # "running"

HasEvents == stream.count > 0

SubQueriesOf(st) == IF st.subQueries = None THEN <<>> ELSE st.subQueries[1]

\* C1: when a run of search() has ended, the event stream is non-empty and
\* its last event is a final-result event or an error event.
C1_LastEventTerminal ==
    Ended => (HasEvents /\ LastEvent.type \in {"final-result", "error"})

C1_Witness ==
    /\ runStatus = "resolved"
    /\ HasEvents
    /\ LastEvent.type = "final-result"
    /\ stream.finals = 1

\* C2: an error event is terminal and unique: no event follows an error
\* event, a run emits at most one error event, and a run that emitted
\* final-result emitted no error event.
C2_ErrorTerminalUnique ==
    /\ ~stream.afterError
    /\ stream.errors <= 1
    /\ (stream.finals > 0 => stream.errors = 0)

\* C3 (as stated): when a run has ended with state.phase = complete, the
\* last two events are phase-update(complete) and then final-result carrying
\* state.finalAnswer, state.sources and state.followUpQuestions.
C3_PhaseCompletePair ==
    (Ended /\ state.phase = "complete") =>
        /\ state.finalAnswer # None
        /\ LastN(stream.tail, 2) =
              <<PhaseUpdate("complete"),
                FinalResult(state.finalAnswer[1], state.sources, state.followUpQuestions)>>

\* C3 (amended): when the complete node has run (the graph is at END with
\* state.phase = complete), the last two events are phase-update(complete)
\* and then final-result carrying state.finalAnswer, state.sources and
\* state.followUpQuestions.  A run stopped by the recursion limit after
\* synthesize wrote phase = complete is not covered.
C3_CompletePair ==
    (node = "END" /\ state.phase = "complete") =>
        /\ state.finalAnswer # None
        /\ LastN(stream.tail, 2) =
              <<PhaseUpdate("complete"),
                FinalResult(state.finalAnswer[1], state.sources, state.followUpQuestions)>>

C3_Witness ==
    /\ node = "END"
    /\ state.phase = "complete"
    /\ Len(state.sources) = 2
    /\ state.finalAnswer # Some(<<>>)
    /\ state.followUpQuestions # Some(<<>>)

\* C4: the promise of search() never rejects, and a failure of graph.invoke
\* (an exception leaving a node, the recursion limit) reaches the caller as
\* an error event, the last event of the run.
C4_NeverThrows ==
    /\ runStatus # "rejected"
    /\ (Ended /\ node # "END") =>
          (HasEvents /\ LastEvent = ErrorEvent(Some("unknown")))

C4_Witness ==
    /\ runStatus = "resolved"
    /\ node = "scrape"
    /\ steps < RECURSION_LIMIT

\* C5: retryCount never exceeds maxRetries and understand runs at most
\* maxRetries + 1 times; with maxRetries = 1, a run in which every
\* understanding call failed has run understand exactly twice, ends with
\* retryCount = 1 and in phase error.
C5_RetryOnce ==
    /\ state.retryCount <= state.maxRetries
    /\ understandRuns <= state.maxRetries + 1
    /\ (Ended /\ state.understanding = None /\ state.maxRetries = 1) =>
          /\ understandRuns = 2
          /\ state.retryCount = 1
          /\ state.phase = "error"
          /\ node = "END"

C5_Witness ==
    /\ Ended
    /\ state.understanding = None
    /\ understandRuns = 2
    /\ state.retryCount = 1

\* C6: every run terminates within the ceiling of 35 graph steps.  Stated
\* in a form a finite run can refute: (a) an unfinished run can always take
\* a step, (b) every step of an unfinished run either adds one to the step
\* count or ends the run, (c) the step count never exceeds 35, and (d) a
\* run that has ended reached END in phase complete or error, or was
\* stopped short of END with an error event as its last event.  With (a)-(c)
\* every behaviour of FairSpec satisfies <>Ended: 35 - steps decreases.
C6_EndsWell ==
    Ended =>
        \/ node = "END" /\ state.phase \in {"complete", "error"}
        \/ node # "END" /\ HasEvents /\ LastEvent.type = "error"

C6_Progress ==
    /\ runStatus = "running"
    /\ \/ steps' = steps + 1 /\ steps' <= RECURSION_LIMIT
       \/ runStatus' # "running" /\ steps' = steps

\* the enabling condition of Next: the guard of the action of the current
\* node and a non-empty set of outcomes for it to draw from
C6_CanStep ==
    \/ node = "END"
    \/ node # "END" /\ steps >= RECURSION_LIMIT
    \/ /\ steps < RECURSION_LIMIT
       /\ \/ node \in {"understand", "search", "handleError", "complete"}
          \/ node = "plan" /\ (speedMode \/ (ExtractResponses # {} /\ AltResponses # {}))
          \/ node = "scrape" /\ ScrapeChoices(state) # {}
          \/ node = "analyze" /\
                (speedMode \/ (CheckResponses(SubQueriesOf(state)) # {}
                                  /\ ModelCalls(state) # {}))
          \/ node = "synthesize" /\ StreamOutcomes # {} /\ FollowUpResponses # {}

C7_UniqueUrls ==
    \A i, j \in DOMAIN state.sources :
        state.sources[i].url = state.sources[j].url => i = j

C7_Witness ==
    /\ Len(state.sources) = 2
    /\ \E i, j \in DOMAIN state.scrapedSources :
          i # j /\ state.scrapedSources[i].url = state.scrapedSources[j].url

\* C8: the entry of state.sources that survives the merges by URL is never
\* emptier than a record that took part in them: it has content if one of
\* them had content and a summary if one of them had a summary.
C8_RicherWins ==
    \A i \in DOMAIN state.sources :
        /\ state.sources[i].url \in contributed.content => Truthy(state.sources[i].content)
        /\ state.sources[i].url \in contributed.summary => Truthy(state.sources[i].summary)

\* C9: no step of the run lowers the stored confidence of a sub-query (the
\* sub-queries, once planned, stay the same list).
C9_ConfidenceStep ==
    state.subQueries # None =>
        /\ state'.subQueries # None
        /\ Len(state'.subQueries[1]) = Len(state.subQueries[1])
        /\ \A i \in DOMAIN state.subQueries[1] :
              state'.subQueries[1][i].confidence >= state.subQueries[1][i].confidence

C9_ConfidenceMonotone == [][C9_ConfidenceStep]_vars

C9_Witness ==
    /\ state.searchAttempt >= 2
    /\ \E i \in DOMAIN SubQueriesOf(state) :
          /\ SubQueriesOf(state)[i].confidence > 0
          /\ SubQueriesOf(state)[i].confidence < MIN_ANSWER_CONFIDENCE

\* C10: every sub-query with answered = true has confidence >=
\* MIN_ANSWER_CONFIDENCE.
C10_AnsweredMeansConfident ==
    \A i \in DOMAIN SubQueriesOf(state) :
        SubQueriesOf(state)[i].answered =>
            SubQueriesOf(state)[i].confidence >= MIN_ANSWER_CONFIDENCE

C10_Witness ==
    \E i \in DOMAIN SubQueriesOf(state) :
        /\ SubQueriesOf(state)[i].answered
        /\ SubQueriesOf(state)[i].confidence = MIN_ANSWER_CONFIDENCE

\* every search of the run so far returned an empty result set, and no
\* model call failed
ZeroResults == failed = {} /\ state.sources = <<>>

\* the run was stopped by the recursion limit
StoppedAtLimit == Ended /\ node # "END" /\ steps >= RECURSION_LIMIT

EndedComplete ==
    /\ node = "END"
    /\ state.phase = "complete"
    /\ stream.errors = 0
    /\ LastEvent.type = "final-result"

\* the order of the nodes from search to complete
NodeOrder ==
    node' # node =>
        /\ node' = "scrape" => node = "search"
        /\ node' = "analyze" => node = "scrape"
        /\ node' = "synthesize" => node = "analyze"
        /\ node' = "complete" => node = "synthesize"

NoPageFetched ==
    \A i \in DOMAIN state.scrapedSources : state.scrapedSources[i].content # PageText

\* C12: a run in which every page fetch timed out or failed and all model
\* calls succeeded ends complete: the graph reaches END in phase complete,
\* the last event is final-result and there is no error event.
C12_FailedFetchesComplete ==
    (Ended /\ "model" \notin failed /\ NoPageFetched) => EndedComplete

C14_SummaryBypassesModel ==
    probe.fn = "processSources" =>
        /\ (\A i \in DOMAIN probe.sources : UsableSummary(probe.sources[i]))
               => probe.modelCalls = {}
        /\ \A i \in DOMAIN probe.sources :
              UsableSummary(probe.sources[i]) =>
                  /\ probe.sources[i].url \notin probe.modelCalls
                  /\ \A j \in DOMAIN probe.result :
                        probe.result[j].url = probe.sources[i].url
                            => probe.result[j].content = probe.sources[i].summary

C14_Witness ==
    /\ probe.fn = "processSources"
    /\ probe.modelCalls # {}
    /\ \E i \in DOMAIN probe.sources :
          /\ UsableSummary(probe.sources[i]) /\ probe.sources[i].content = LongText
          /\ \E j \in DOMAIN probe.result : probe.result[j].url = probe.sources[i].url

\* a step of the handleError node
HandlerStep == node = "handleError" /\ steps' = steps + 1

\* C15: when the error handler retries (retryCount < maxRetries), retryCount
\* grows by exactly 1, and what runs next is understanding (node understand,
\* phase understanding) if the recorded errorType is llm and searching (node
\* search, phase searching) if it is search.  The handler is only ever
\* entered with errorType llm, so the second case describes no step.
C15_RetryStep ==
    (HandlerStep /\ state.retryCount < state.maxRetries) =>
        /\ state'.retryCount = state.retryCount + 1
        /\ state.errorType = Some("llm") =>
              (node' = "understand" /\ state'.phase = "understanding")
        /\ state.errorType = Some("search") =>
              (node' = "search" /\ state'.phase = "searching")

\* the error handler is only entered with errorType llm
HandlerSeesLlm == node = "handleError" => state.errorType = Some("llm")

AfterRetry == node = "understand" /\ state.retryCount > 0 /\ state.phase = "understanding"

\* C16: when the error handler has routed back for a retry, state.error and
\* state.errorType are both undefined in the state the next node sees.
C16_ErrorFieldsCleared ==
    AfterRetry => (state.error = None /\ state.errorType = None)

\* the phases the state machine names
NamedPhases ==
    {"understanding", "planning", "searching", "scraping", "analyzing", "synthesizing",
     "complete", "error"}

\* C17: state.phase is always one of the named phases (understanding,
\* planning, searching, scraping, analyzing, synthesizing, complete, error).
C17_PhaseNamed == state.phase \in NamedPhases


\* a step of the plan node, full mode, that finds no unanswered sub-query:
\* only that branch of plan writes the phase "analyzing"
PlanFindsAllAnswered ==
    /\ node = "plan" /\ ~speedMode
    /\ steps' = steps + 1
    /\ state'.phase = "analyzing"

\* C18: in full mode, when plan finds no unanswered sub-query, the next node
\* executed is analyze (no search and no scrape node runs in between)
C18_AnsweredPlanGoesToAnalyze == [][PlanFindsAllAnswered => node' = "analyze"]_vars

\* the scrape node about to run after such a plan step and the pass through
\* the search node, with a source whose page it will fetch
ScrapeAfterAnsweredPlan ==
    /\ node = "scrape" /\ state.phase = "scrape" /\ ~speedMode
    /\ state.subQueries # None /\ state.subQueries[1] # <<>>
    /\ SelectSeq(state.subQueries[1], Unanswered) = <<>>
    /\ SelectSeq(state.sources, NeedsScrape) # <<>>


\* a step of the search node
SearchStep == node = "search" /\ steps' = steps + 1

\* a step of the search node whose fetcher call failed: the announcement of
\* the query is the last event of the step (a call that returns is followed
\* by the event that reports what was found)
SearchFailureStep == SearchStep /\ LastEvent'.type = "searching"

\* C19: a failed fetcher call on query i does not abort the run: the search
\* step leaves state.sources and state.phase as they were, records the error
\* type search, raises currentSearchIndex by exactly 1, and the run goes on
\* with the next query or with the scrape node
C19_FailureStep ==
    SearchFailureStep =>
        /\ state'.sources = state.sources
        /\ state'.phase = state.phase
        /\ state'.errorType = Some("search")
        /\ state'.currentSearchIndex = state.currentSearchIndex + 1
        /\ state'.searchQueries = state.searchQueries
        /\ runStatus' = "running"
        /\ node' = IF state'.currentSearchIndex < Len(SearchQueriesOf(state'))
                   THEN "search" ELSE "scrape"

C19_FailedSearchGoesOn == [][C19_FailureStep]_vars

\* every query of the run failed, and the run still ended complete
C19_Witness ==
    /\ EndedComplete
    /\ failed = {"search"}
    /\ state.errorType = Some("search")
    /\ state.sources = <<>>
    /\ state.searchAttempt = 0
    /\ state.currentSearchIndex = Len(SearchQueriesOf(state))
    /\ state.currentSearchIndex >= 1

\* C20 as stated: every step of the search node raises currentSearchIndex by 1
C20_IndexGrowsEveryStep ==
    [][SearchStep => state'.currentSearchIndex = state.currentSearchIndex + 1]_vars

C20_IndexInRange ==
    /\ 0 <= state.currentSearchIndex
    /\ state.currentSearchIndex <= Len(SearchQueriesOf(state))

C20_SearchStep ==
    SearchStep =>
        /\ state'.searchQueries = state.searchQueries
        /\ IF state.currentSearchIndex < Len(SearchQueriesOf(state))
           THEN /\ state'.currentSearchIndex = state.currentSearchIndex + 1
                /\ LastEvent'.type = "searching"
                        => LastEvent'.index = state.currentSearchIndex + 1
           ELSE state'.currentSearchIndex = state.currentSearchIndex
        /\ node' \in {"search", "scrape"}
        /\ node' = "scrape"
              <=> state'.currentSearchIndex = Len(SearchQueriesOf(state'))

\* C20: within one planning round the search node takes the queries one per
\* invocation, in order, each once: currentSearchIndex stays between 0 and
\* the number of queries, a search step with a query left raises it by 1
\* (a step with none left keeps it), and the scrape node follows exactly
\* when the index equals the number of queries
C20_OneQueryPerStep == []C20_IndexInRange /\ [][C20_SearchStep]_vars

\* a round of two or more queries has been gone through
C20_Witness ==
    /\ node = "scrape"
    /\ Len(SearchQueriesOf(state)) >= 2
    /\ state.currentSearchIndex = Len(SearchQueriesOf(state))
    /\ "search" \in failed
    /\ state.sources # <<>>

\* after a plan step that finds no unanswered sub-query no query is left for
\* the search node
AnsweredPlanLeavesNoQuery ==
    [][PlanFindsAllAnswered
         => state'.currentSearchIndex >= Len(SearchQueriesOf(state'))]_vars


\* a step of the analyze node
AnalyzeStep == node = "analyze" /\ steps' = steps + 1

\* the retry decision of analyze, on the sub-queries as the answer check
\* left them and the attempt number this pass has
MaySearchAgain(st) ==
    /\ st.subQueries # None
    /\ Len(SelectSeq(st.subQueries[1], IsAnswered)) < Len(st.subQueries[1])
    /\ st.searchAttempt < MAX_SEARCH_ATTEMPTS
    /\ ~(/\ Len(SelectSeq(st.subQueries[1], IsPartial))
               > Len(SelectSeq(st.subQueries[1], IsAnswered))
         /\ st.searchAttempt >= 2)

C21_AnalyzeStep ==
    (AnalyzeStep /\ ~speedMode) =>
        /\ node' \in {"plan", "synthesize"}
        /\ node' = "plan" <=> MaySearchAgain(state')
        /\ state.subQueries # None => state'.searchAttempt = state.searchAttempt + 1

C21_RoundsBounded ==
    /\ rounds.replans <= MAX_SEARCH_ATTEMPTS - 1
    /\ state.retryCount = 0 => rounds.started <= MAX_SEARCH_ATTEMPTS

\* C21: in full mode analyze goes back to planning only when fewer
\* sub-queries are answered than there are, the attempt number is below
\* MAX_SEARCH_ATTEMPTS and there are no partial answers after 2+ attempts;
\* every analyze pass over sub-queries raises searchAttempt by exactly 1; a
\* run takes the edge from analyze to plan at most MAX_SEARCH_ATTEMPTS - 1
\* times and, without error retries, starts at most MAX_SEARCH_ATTEMPTS
\* search rounds
C21_SearchRoundsBounded == []C21_RoundsBounded /\ [][C21_AnalyzeStep]_vars

\* the second round of a run without error retries is through its analysis
C21_Witness ==
    /\ ~speedMode /\ node = "synthesize"
    /\ state.retryCount = 0
    /\ rounds.replans = MAX_SEARCH_ATTEMPTS - 1
    /\ rounds.started = MAX_SEARCH_ATTEMPTS
    /\ state.searchAttempt = MAX_SEARCH_ATTEMPTS


\* the sources of a list that have content or a summary
Eligible(sources) == SelectSeq(sources, ContentOrSummary)

\* every source with a summary before every source without one, and
\* quality non-increasing within each of the two groups
SummaryFirstThenQuality(r) ==
    \A i, j \in DOMAIN r :
        i < j =>
            /\ Truthy(r[j].summary) => Truthy(r[i].summary)
            /\ (Truthy(r[i].summary) <=> Truthy(r[j].summary))
                    => r[i].quality >= r[j].quality

\* no source left out ranks before one that was kept
KeepsTheFirst(r, sources) ==
    \A x \in Range(sources) \ Range(r) :
        \A i \in DOMAIN r :
            /\ Truthy(x.summary) => Truthy(r[i].summary)
            /\ (Truthy(x.summary) <=> Truthy(r[i].summary))
                    => r[i].quality >= x.quality

\* C22 as stated: processedSources is the whole merged list, reordered and
\* cut to MAX_SOURCES_TO_CHECK entries
C22_ProcessedIsMergedList ==
    probe.fn = "analyzeSpeed" =>
        Len(probe.processed[1]) = Min(Len(probe.merged), MAX_SOURCES_TO_CHECK)

\* C22: in speed mode analyze goes straight to synthesizing, never back to
\* planning and with no sub-queries; processedSources holds the merged
\* sources that have content or a summary, those with a summary first and
\* by non-increasing quality within each group, cut to at most
\* MAX_SOURCES_TO_CHECK entries
C22_SpeedAnalysis ==
    probe.fn = "analyzeSpeed" =>
        /\ probe.next = "synthesize"
        /\ probe.phase = "synthesizing"
        /\ probe.subQueries = None
        /\ probe.processed # None
        /\ LET r == probe.processed[1]
           IN  /\ Len(r) = Min(Len(Eligible(probe.merged)), MAX_SOURCES_TO_CHECK)
               /\ Range(r) \subseteq Range(Eligible(probe.merged))
               /\ \A i, j \in DOMAIN r : i # j => r[i].url # r[j].url
               /\ SummaryFirstThenQuality(r)
               /\ KeepsTheFirst(r, Eligible(probe.merged))

\* more sources than are kept, of both groups, one of them left out
C22_Witness ==
    /\ probe.fn = "analyzeSpeed"
    /\ Len(Eligible(probe.merged)) > MAX_SOURCES_TO_CHECK
    /\ Len(probe.processed[1]) = MAX_SOURCES_TO_CHECK
    /\ \E i, j \in DOMAIN probe.processed[1] :
            /\ Truthy(probe.processed[1][i].summary)
            /\ ~Truthy(probe.processed[1][j].summary)
    /\ \E i \in DOMAIN probe.merged :
            /\ Truthy(probe.merged[i].summary)
            /\ ~Truthy(probe.merged[1].summary)
            /\ probe.merged[i].quality < probe.merged[1].quality

\* under direct planning a run never has sub-queries and never returns from
\* analyze to plan
SpeedModeNoSubQueries == speedMode => (state.subQueries = None /\ rounds.replans = 0)


\* a step of the synthesize node
SynthesizeStep == node = "synthesize" /\ steps' = steps + 1

\* the source labelled [n] is the n-th source of the list
LabelsFollow(labelled, list) ==
    \A n \in DOMAIN labelled : n <= Len(list) /\ list[n].url = labelled[n].url

\* C23: in the prompt built by generateStreamingAnswer the source labelled
\* [n] is the n-th element of the list passed to the synthesizer
\* (state.processedSources, else state.sources), for every n
C23_LabelsFollowInput ==
    [][SynthesizeStep
         => LabelsFollow(optimizedSources(SourcesToUse(state)), SourcesToUse(state))]_vars

\* C24: the source the caller resolves citation [n] to, element n-1 of the
\* sources of final-result, has the URL of the source the synthesizer
\* labelled [n], for every n up to the number of sources given to the model
C24_CitationsResolve ==
    (node = "END" /\ state.phase = "complete" /\ LastEvent.type = "final-result")
        => LabelsFollow(optimizedSources(SourcesToUse(state)), LastEvent.sources)


\* C25: one execution of the scrape node fetches only sources whose content
\* is shorter than MIN_CONTENT_LENGTH, issues at most MAX_SOURCES_TO_SCRAPE
\* fetches, and returns every source that has content of at least
\* MIN_CONTENT_LENGTH unchanged in its scrapedSources
C25_ScrapeFrame ==
    probe.fn = "scrape" =>
        /\ \A k \in DOMAIN probe.fetched :
              \E i \in DOMAIN probe.sources :
                 /\ probe.sources[i].url = probe.fetched[k]
                 /\ probe.sources[i].content.len < MIN_CONTENT_LENGTH
        /\ Len(probe.fetched) <= MAX_SOURCES_TO_SCRAPE
        /\ \A i \in DOMAIN probe.sources :
              probe.sources[i].content.len >= MIN_CONTENT_LENGTH
                 => \E j \in DOMAIN probe.output : probe.output[j] = probe.sources[i]

\* more sources to fetch than the node fetches, next to sources that pass
C25_Witness ==
    /\ probe.fn = "scrape"
    /\ Len(probe.fetched) = MAX_SOURCES_TO_SCRAPE
    /\ Cardinality({i \in DOMAIN probe.sources :
                       probe.sources[i].content.len < MIN_CONTENT_LENGTH})
          > MAX_SOURCES_TO_SCRAPE
    /\ \E i \in DOMAIN probe.sources : probe.sources[i].content.len >= MIN_CONTENT_LENGTH
    /\ Len(probe.output) > MAX_SOURCES_TO_SCRAPE


\* the last result of the set that has the URL of result i
LastWithUrl(results, i) ==
    CHOOSE k \in DOMAIN results :
        /\ results[k].url = results[i].url
        /\ \A j \in DOMAIN results : results[j].url = results[i].url => j <= k

\* the search step has just returned its sources
JustSearched == probe.fn = "search" /\ probe.stage = "idle" /\ probe.returned

\* C26: with parallel summaries, after a successful search step every URL
\* the fetcher returned for the query is in state.sources with its fetched
\* content, whatever the order in which the summaries end and whichever of
\* them fail; of results with the same URL the last in result order stays
C26_ParallelMergeKeepsAll ==
    (JustSearched /\ node \in {"search", "scrape"}) =>
        /\ state.sources =
              SourcesReducer(probe.before,
                  [i \in DOMAIN probe.results |->
                      ProcessResult(probe.results[i], state.query, probe.summaryOk[i])])
        /\ \A i \in DOMAIN probe.results :
              \E k \in DOMAIN state.sources :
                 LET last == LastWithUrl(probe.results, i)
                 IN  /\ state.sources[k].url = probe.results[i].url
                     /\ state.sources[k].content = probe.results[last].content
                     /\ Truthy(state.sources[k].summary) <=> probe.summaryOk[last]
        /\ \A k \in DOMAIN probe.before :
              \E j \in DOMAIN state.sources : state.sources[j].url = probe.before[k].url

\* two results with the same URL, summarised in the reverse of their order,
\* the first with success and the second without
C26_Witness ==
    /\ JustSearched /\ node \in {"search", "scrape"}
    /\ Len(probe.results) = 2
    /\ probe.results[1].url = probe.results[2].url
    /\ probe.order = <<2, 1>>
    /\ probe.summaryOk[1] /\ ~probe.summaryOk[2]
    /\ probe.before # <<>>

SearchEventOfQuery(e) == e.type \in {"found", "source-complete"} /\ "q" \in DOMAIN e

\* C27: every found and source-complete event of query i comes after the
\* searching event of query i, before the searching event of query i+1 and
\* before the phase-update of any later phase
C27_EventsWithinQuery ==
    probe.fn = "search" =>
        \A k \in DOMAIN probe.log :
            SearchEventOfQuery(probe.log[k]) =>
                /\ \E j \in 1..(k - 1) : probe.log[j] = Searching(probe.log[k].q)
                /\ \A j \in DOMAIN probe.log :
                      /\ (probe.log[j].type = "searching"
                             /\ probe.log[j].index > probe.log[k].q) => j > k
                      /\ (probe.log[j].type = "phase-update"
                             /\ probe.log[j].phase # "searching") => j > k
                      /\ (probe.log[j].type = "found" /\ "q" \in DOMAIN probe.log[j]
                             /\ probe.log[j].q = probe.log[k].q) => j <= k

\* both queries announced summaries, the first one's in the reverse of the
\* result order, and the analysis has begun
C27_Witness ==
    /\ probe.fn = "search" /\ probe.stage = "analyzed"
    /\ \E a, b \in DOMAIN probe.log :
          /\ a < b
          /\ probe.log[a] = ParComplete(1, "not a url")
          /\ probe.log[b] = ParComplete(1, "https://a.example")
    /\ \E c \in DOMAIN probe.log :
          probe.log[c].type = "source-complete" /\ "q" \in DOMAIN probe.log[c]
             /\ probe.log[c].q = 2


\* C28: when the answer-checking model call fails or its response does not
\* parse as a JSON array, checkAnswersInSources returns the sub-queries
\* unchanged (answered, confidence, answer and sources of every sub-query)
\* and the run does not enter the error phase
C28_FailedCheckChangesNothing ==
    probe.fn = "analyzeNormal" =>
        /\ probe.response.kind # "array" => probe.checked = Some(probe.subQueries)
        /\ probe.phase \in {"planning", "synthesizing"}
        /\ probe.next \in {"plan", "synthesize"}

\* a value that is not an array came back for a sub-query answered before
C28_Witness ==
    /\ probe.fn = "analyzeNormal"
    /\ probe.response.kind = "notArray"
    /\ probe.sources # <<>>
    /\ probe.subQueries[1].answered /\ probe.subQueries[1].confidence = 3
    /\ probe.checked = Some(probe.subQueries)
    /\ probe.next = "synthesize"


\* a step of the plan node
PlanStep == node = "plan" /\ steps' = steps + 1

\* C29: whatever the sub-query extraction returns (a response that is not a
\* parseable JSON array of {question, searchQuery} objects included), the
\* plan node does not enter the error phase: it goes on to the search node
C29_PlanNeverFails ==
    [][PlanStep => (state'.phase # "error" /\ node' = "search")]_vars


\* a follow-up list: at most 3 entries, each non-empty and shorter than 75
\* characters
FollowUpsWellFormed(list) ==
    /\ Len(list) <= 3
    /\ \A i \in DOMAIN list : list[i] > 0 /\ list[i] < 75

\* C30: follow-up generation never turns into a run error: when the
\* follow-up call fails or gives no usable line the list is empty and the
\* run still reaches complete; the list has at most 3 entries, each
\* non-empty and shorter than 75 characters
C30_FollowUpsNeverFail ==
    probe.fn = "synthesize" =>
        LET answered == probe.answer.completed \/ probe.answer.fallbackOk
            noUsableLine == \A i \in DOMAIN probe.followUp.lines :
                               ~(probe.followUp.lines[i] > 0 /\ probe.followUp.lines[i] < 75)
        IN  /\ answered <=> (probe.phase = "complete" /\ probe.next = "complete")
            /\ ~answered <=> probe.phase = "error"
            /\ answered =>
                  /\ probe.followUpQuestions # None
                  /\ FollowUpsWellFormed(probe.followUpQuestions[1])
                  /\ (~probe.followUp.ok \/ noUsableLine)
                        => probe.followUpQuestions[1] = <<>>

\* the answer was generated, the follow-up call failed
C30_Witness ==
    /\ probe.fn = "synthesize"
    /\ probe.answer.completed
    /\ ~probe.followUp.ok
    /\ probe.followUpQuestions = Some(<<>>)
    /\ probe.phase = "complete" /\ probe.next = "complete"

\* the follow-up list of every run
RunFollowUpsWellFormed ==
    state.followUpQuestions # None => FollowUpsWellFormed(state.followUpQuestions[1])


\* the chunks of the content-chunk events of a sequence of events, joined
RECURSIVE JoinedChunks(_)
JoinedChunks(events) ==
    IF events = <<>> THEN <<>>
    ELSE (IF Head(events).type = "content-chunk" THEN Head(events).chunk ELSE <<>>)
            \o JoinedChunks(Tail(events))

\* C31: when the synthesize node has run once and the run goes on to
\* complete, the chunks of its content-chunk events, joined in order, are
\* the content of final-result (state.finalAnswer), also when the token
\* stream failed after some chunks and the non-streaming call was used
C31_ChunksAreTheAnswer ==
    (probe.fn = "synthesize" /\ probe.phase = "complete")
        => JoinedChunks(probe.events) = probe.finalAnswer[1]


\* the fast path is taken exactly when the sources with a summary longer
\* than 20 characters number at least min(8, total)
FastPathExactlyWhen ==
    probe.fn = "processSources" =>
        (probe.fast <=>
            Cardinality({i \in DOMAIN probe.sources : probe.sources[i].summary.len > 20})
                >= Min(8, Len(probe.sources)))

\* on the fast path no model call is made, the sources returned are the
\* summarised ones, and each has its summary as content
FastPathUsesSummaries ==
    (probe.fn = "processSources" /\ probe.fast) =>
        /\ probe.modelCalls = {}
        /\ Len(probe.result)
              = Cardinality({i \in DOMAIN probe.sources : probe.sources[i].summary.len > 20})
        /\ \A k \in DOMAIN probe.result :
              /\ probe.result[k].content = probe.result[k].summary
              /\ \E i \in DOMAIN probe.sources :
                    /\ probe.sources[i].url = probe.result[k].url
                    /\ probe.sources[i].summary = probe.result[k].summary
                    /\ probe.sources[i].quality = probe.result[k].quality

\* C32: processSources takes the fast path exactly when the sources with a
\* summary longer than 20 characters number at least min(8, total); on the
\* fast path it makes no model call and every returned source has its
\* summary as content and its existing quality as relevanceScore (the
\* quality is kept in tenths, the relevance score in thousandths)
C32_FastPathScoresByQuality ==
    /\ FastPathExactlyWhen
    /\ FastPathUsesSummaries
    /\ (probe.fn = "processSources" /\ probe.fast) =>
          \A k \in DOMAIN probe.result :
             probe.result[k].relevanceScore = 100 * probe.result[k].quality


\* the sum of the content lengths of a list of sources
RECURSIVE TotalChars(_)
TotalChars(sources) ==
    IF sources = <<>> THEN 0 ELSE Head(sources).content.len + TotalChars(Tail(sources))

\* C33: the sources processSources returns fit the total budget: their
\* content lengths add up to at most MAX_TOTAL_CHARS
C33_ResultFitsBudget ==
    probe.fn = "processSources" => TotalChars(probe.result) <= MAX_TOTAL_CHARS

\* the share of the budget a source's relevance gives it, between the floor
\* and the ceiling
ClampedShare(sources, i) ==
    LET Relevant(p) == p.relevanceScore > 0
        total == TotalRelevance(SelectSeq(sources, Relevant))
    IN  Max(MIN_CHARS_PER_SOURCE,
            Min((sources[i].relevanceScore * MAX_TOTAL_CHARS) \div total,
                MAX_CHARS_PER_SOURCE))

\* the position in the input of the k-th relevant source
RelevantIndex(sources, k) ==
    CHOOSE i \in DOMAIN sources :
        /\ sources[i].relevanceScore > 0
        /\ Cardinality({j \in 1..i : sources[j].relevanceScore > 0}) = k

\* C34: when distributeCharacterBudget distributes the budget over relevant
\* sources, the allotment of each is its share by relevance clamped to the
\* floor of 2,000 and the ceiling of 15,000 characters, and the content
\* emitted for a source is never longer than 15,000 characters
C34_AllotmentAndCeiling ==
    (probe.fn = "distributeCharacterBudget"
        /\ \E i \in DOMAIN probe.sources : probe.sources[i].relevanceScore > 0) =>
        \A k \in DOMAIN probe.result :
            /\ probe.result[k].targetChars
                  = ClampedShare(probe.sources, RelevantIndex(probe.sources, k))
            /\ probe.result[k].source.content.len <= MAX_CHARS_PER_SOURCE

\* the allotment part of C34 alone
AllotmentIsClampedShare ==
    (probe.fn = "distributeCharacterBudget"
        /\ \E i \in DOMAIN probe.sources : probe.sources[i].relevanceScore > 0) =>
        \A k \in DOMAIN probe.result :
            probe.result[k].targetChars
                = ClampedShare(probe.sources, RelevantIndex(probe.sources, k))


UrlsOf(sources) == {sources[i].url : i \in DOMAIN sources}

IsPrefix(s, t) == Len(s) <= Len(t) /\ SubSeq(t, 1, Len(s)) = s

\* C35: the accumulators only grow: after any node step the URLs of
\* state.sources include those before the step, and state.scrapedSources
\* starts with the scrapedSources before the step
C35_AccumulatorsGrow ==
    [][/\ UrlsOf(state.sources) \subseteq UrlsOf(state'.sources)
       /\ IsPrefix(state.scrapedSources, state'.scrapedSources)]_vars

\* a second round of searching has run on sources and scraped pages that
\* were already there
C35_Witness ==
    /\ rounds.started >= 2
    /\ Cardinality(UrlsOf(state.sources)) >= 2
    /\ Len(state.scrapedSources) >= 2


\* the fields of a RunState that search() starts empty or undefined
FreshRunState(st) ==
    /\ st.sources = <<>>
    /\ st.scrapedSources = <<>>
    /\ \A k \in {"understanding", "searchQueries", "subQueries", "processedSources",
                  "finalAnswer", "error", "errorType"} : st[k] = None

\* C36: every search() starts its run from a fresh state: sources and
\* scrapedSources empty, understanding, searchQueries, subQueries,
\* processedSources, finalAnswer, error and errorType undefined, whatever an
\* earlier run on the same engine left, also under the same checkpointId
\* with checkpointing enabled
C36_StartsFresh ==
    runStatus = "starting" => FreshRunState(state)

\* the start is fresh when the engine keeps no checkpoints or the
\* checkpointId is a new one
FreshOnNewThread ==
    (runStatus = "starting" /\ ~(probe.enableCheckpointing /\ probe.sameThread))
        => FreshRunState(state)


\* the distinct terms of a query that occur in a content; an empty token,
\* left by consecutive spaces or an empty query, is not a term
DistinctTermsFound(content, query) ==
    {w \in Range(query) \ {""} : Includes(content, w)}

\* C37: the content score is min(1.0, 0.2 x the number of distinct query
\* terms that occur in the content) (in tenths), for every query, also with
\* repeated terms, consecutive spaces or no term at all
C37_ScoreCountsDistinctTerms ==
    probe.fn = "scoreContent" =>
        probe.result
            = Min(10, 2 * Cardinality(DistinctTermsFound(probe.content, probe.query)))

\* the score counts every token of the query, repeated or empty
ScoreCountsEveryToken ==
    probe.fn = "scoreContent" =>
        probe.result = Min(10, 2 * CountIncluded(probe.content, probe.query))


\* once the timeout has fired, its error event is the last event the
\* stream has taken, whatever the engine emits afterwards
TimeoutErrorIsLast ==
    (probe.fn = "server" /\ probe.timer = "fired") =>
        /\ probe.closed
        /\ probe.last = Some(ErrorEvent(Some("unknown")))

\* C38: for every interleaving of the timeout callback with the engine run,
\* the timeout's error event is the last event delivered, nothing is written
\* to the stream after it is closed, and stream.done is called exactly once
C38_TimeoutClosesOnce ==
    /\ TimeoutErrorIsLast
    /\ (probe.fn = "server" /\ probe.returned) => probe.doneCalls = 1

\* every action finished without the timeout closes the stream once
ClosedOnceWithoutTimeout ==
    (probe.fn = "server" /\ probe.returned /\ probe.timer = "cleared")
        => probe.doneCalls = 1 /\ ~probe.doneThrew


\* a node step that takes the run into the error phase
EntersError == steps' = steps + 1 /\ state.phase # "error" /\ state'.phase = "error"

\* a step of the search, scrape or analyze node
GatheringStep == node \in {"search", "scrape", "analyze"} /\ steps' = steps + 1

C39_ErrorStep ==
    /\ EntersError => (/\ node \in {"understand", "plan", "synthesize"}
                       /\ state'.errorType = Some("llm"))
    /\ GatheringStep => state'.phase # "error"

\* C39: the phase error is entered only by a step of the understand, plan
\* or synthesize node and always with errorType llm; no step of the search,
\* scrape or analyze node sets the phase error; so the error handler always
\* finds errorType llm, also after a search step that recorded errorType
\* search
C39_ErrorOnlyFromModelNodes ==
    [][C39_ErrorStep]_vars /\ [](node = "handleError" => state.errorType = Some("llm"))

\* the error handler is about to run in a run whose search failed earlier
C39_Witness ==
    /\ node = "handleError"
    /\ runStatus = "running"
    /\ "search" \in failed
    /\ state.phase = "error"
    /\ state.errorType = Some("llm")


\* the last event of the stream but one
EventBeforeLast == stream.tail[Len(stream.tail) - 1]

\* a failed run of the Tavily engine has one error event, its last event
TavilyFailureEndsWithError ==
    (probe.fn = "tavily" /\ probe.pc = "failed") =>
        /\ stream.errors = 1
        /\ LastEvent.type = "error"
        /\ stream.finals = 0

\* C40: a successful run of TavilySearchEngine.search ends with the pair
\* phase-update(complete), final-result, in this order, and a failed run
\* has a single error event, which is its last event
C40_TavilyFinalPair ==
    /\ (probe.fn = "tavily" /\ probe.pc = "succeeded")
          => (/\ Len(stream.tail) >= 2
              /\ EventBeforeLast = PhaseUpdate("complete")
              /\ LastEvent.type = "final-result")
    /\ TavilyFailureEndsWithError

\* a successful run of the Tavily engine ends with the final result followed
\* by the phase update
TavilyEndsWithUpdate ==
    (probe.fn = "tavily" /\ probe.pc = "succeeded")
        => (/\ Len(stream.tail) >= 2
            /\ EventBeforeLast.type = "final-result"
            /\ LastEvent = PhaseUpdate("complete")
            /\ stream.errors = 0)

====
